---------------------------- MODULE Spec2Model ----------------------------
(***************************************************************************)
(* Verification model of the train traffic control core:                   *)
(*   models/infrastructure.py   RailwayNetwork (reserve / occupy / release)*)
(*   models/train.py            Train, calculate_priority_score            *)
(*   optimization/simple_scheduler.py   SimpleTrainScheduler               *)
(*   optimization/scheduler.py          TrainScheduler (CP-SAT model)      *)
(*   optimization/*.py          RealTimeOptimizer, SimpleRealTimeOptimizer *)
(*   api/irctc_service.py       IRCTCService (schedule cache)              *)
(*                                                                         *)
(* Twelve specifications share the variables:                              *)
(*   Spec       the section occupancy operations of RailwayNetwork         *)
(*   ConcSpec   the same operations called from several threads            *)
(*   SchedSpec  the scheduling entry points applied to a list of trains    *)
(*   HelperSpec the helpers of the schedulers applied to one train         *)
(*   UpdateSpec the re-optimizers called on the list of active trains      *)
(*   ConflictSpec  conflict detection and resolution on lists of trains    *)
(*   TripSpec   the operations and the reserve / occupy / release sequence *)
(*   FrameSpec  scheduling calls on a network that is in use               *)
(*   SampleSpec the occupancy operations on the sample network             *)
(*   RepeatSpec update_schedule called several times in a row              *)
(*   RaceSpec   update_schedule called from several threads                *)
(*   CacheSpec  the schedule cache of the IRCTC service                    *)
(***************************************************************************)
EXTENDS Integers, Sequences, FiniteSets, TLC

VARIABLES
    sections,   \* RailwayNetwork.sections: section_id -> TrackSection
    trains,     \* the caller's list of Train records
    call,       \* the last entry point called, with its arguments
    ret,        \* what that call returned, or the exception it raised
    before,     \* RailwayNetwork.sections as they were when the call began
    just_released,     \* <<s, t>> when the call before the last one was a
                       \* release_section(s, t) that returned True, else <<>>
    callers,           \* the threads inside an operation: where each one
                       \* stands and what it has read
    current_schedule,  \* the current_schedule field of each re-optimizer:
                       \* <<>> for None, <<schedule>> for a dict
    cache,             \* IRCTCService._cache: train_no -> response dict
    cache_expiry,      \* IRCTCService._cache_expiry: train_no -> minute
    now                \* datetime.now(), in minutes

\* The fields of the IRCTC service and its clock.
irctc_vars == <<cache, cache_expiry, now>>

vars == <<sections, trains, call, ret, before, just_released, callers,
          current_schedule, irctc_vars>>

\* A dict without keys.
EmptyDict == [k \in {} |-> 0]

\* IRCTCService.__init__: self._cache = {}; self._cache_expiry = {}
IrctcInit ==
    /\ cache = EmptyDict
    /\ cache_expiry = EmptyDict
    /\ now = 0

(***************************************************************************)
(* Bounds of the model.                                                    *)
(***************************************************************************)
NumTrainIds == 2

\* Optional[str] = None
None == "None"

TrainIds == {"T" \o ToString(i) : i \in 1..NumTrainIds}

(***************************************************************************)
(* models/infrastructure.py                                                *)
(***************************************************************************)
SectionStatus == {"available", "occupied", "blocked", "maintenance", "reserved"}

\* The statuses a section can be constructed with that no operation sets.
ConstructedStatus == {"available", "blocked", "maintenance"}

\* TrackSection with the field defaults of the class: AVAILABLE, no
\* occupants, no reservation.  Lengths are in tenths of a kilometre.
TrackSection(type, len10, limit, cap) ==
    [section_type     |-> type,
     length_km10      |-> len10,
     max_speed_limit  |-> limit,
     max_trains       |-> cap,
     current_status   |-> "available",
     occupying_trains |-> <<>>,
     reserved_for     |-> None]

\* The network the model runs on: three sections of create_sample_network
\* (a double line, the junction, a platform); the platform takes two trains.
SampleSections ==
    [s \in {"SEC_001", "SEC_003", "SEC_004"} |->
        CASE s = "SEC_001" -> TrackSection("double_line", 155, 100, 1)
          [] s = "SEC_003" -> TrackSection("junction", 21, 100, 1)
          [] s = "SEC_004" -> TrackSection("platform", 4, 100, 2)]

SectionIds == DOMAIN SampleSections

\* A section id that is not in the network.
UnknownSection == "SEC_999"

\* list.remove(x): drops the first occurrence of x.
RECURSIVE ListRemove(_, _)
ListRemove(l, x) ==
    IF l = <<>> THEN <<>>
    ELSE IF Head(l) = x THEN Tail(l)
    ELSE <<Head(l)>> \o ListRemove(Tail(l), x)

InList(l, x) == \E i \in 1..Len(l) : l[i] = x

\* RailwayNetwork.check_section_capacity
check_section_capacity(secs, section_id) ==
    IF section_id \notin DOMAIN secs THEN FALSE
    ELSE Len(secs[section_id].occupying_trains) < secs[section_id].max_trains

\* reserve_section without the status test: only the reservation holder is
\* looked at.
reserve_result_ignoring_status(secs, section_id, train_id) ==
    IF section_id \notin DOMAIN secs THEN [ok |-> FALSE, secs |-> secs]
    ELSE LET section == secs[section_id] IN
         IF section.reserved_for = None
         THEN [ok   |-> TRUE,
               secs |-> [secs EXCEPT ![section_id].reserved_for = train_id,
                                     ![section_id].current_status = "reserved"]]
         ELSE [ok |-> FALSE, secs |-> secs]

\* RailwayNetwork.reserve_section as a function of the sections: the
\* returned flag and the sections after the call.
reserve_result(secs, section_id, train_id) ==
    IF section_id \notin DOMAIN secs THEN [ok |-> FALSE, secs |-> secs]
    ELSE LET section == secs[section_id] IN
         IF section.current_status = "available" /\ section.reserved_for = None
         THEN [ok   |-> TRUE,
               secs |-> [secs EXCEPT ![section_id].reserved_for = train_id,
                                     ![section_id].current_status = "reserved"]]
         ELSE [ok |-> FALSE, secs |-> secs]

\* occupy_section without its guard: the train is appended to any known
\* section.
occupy_result_unchecked(secs, section_id, train_id) ==
    IF section_id \notin DOMAIN secs THEN [ok |-> FALSE, secs |-> secs]
    ELSE [ok   |-> TRUE,
          secs |-> [secs EXCEPT
                      ![section_id].occupying_trains =
                          Append(secs[section_id].occupying_trains, train_id),
                      ![section_id].current_status = "occupied",
                      ![section_id].reserved_for = None]]

\* occupy_section that leaves the reservation holder in place.
occupy_result_keeping_reservation(secs, section_id, train_id) ==
    IF section_id \notin DOMAIN secs THEN [ok |-> FALSE, secs |-> secs]
    ELSE LET section == secs[section_id] IN
         IF /\ section.current_status \in {"available", "reserved"}
            /\ Len(section.occupying_trains) < section.max_trains
         THEN [ok   |-> TRUE,
               secs |-> [secs EXCEPT
                           ![section_id].occupying_trains =
                               Append(section.occupying_trains, train_id),
                           ![section_id].current_status = "occupied"]]
         ELSE [ok |-> FALSE, secs |-> secs]

\* RailwayNetwork.occupy_section
occupy_result(secs, section_id, train_id) ==
    IF section_id \notin DOMAIN secs THEN [ok |-> FALSE, secs |-> secs]
    ELSE LET section == secs[section_id] IN
         IF /\ section.current_status \in {"available", "reserved"}
            /\ Len(section.occupying_trains) < section.max_trains
         THEN [ok   |-> TRUE,
               secs |-> [secs EXCEPT
                           ![section_id].occupying_trains =
                               Append(section.occupying_trains, train_id),
                           ![section_id].current_status = "occupied",
                           ![section_id].reserved_for = None]]
         ELSE [ok |-> FALSE, secs |-> secs]

\* release_section with the status reset outside the membership test: the
\* status goes back to AVAILABLE whenever the section has no occupants.
release_result_resetting_status(secs, section_id, train_id) ==
    IF section_id \notin DOMAIN secs THEN [ok |-> FALSE, secs |-> secs]
    ELSE LET section == secs[section_id]
             found   == InList(section.occupying_trains, train_id)
             left    == ListRemove(section.occupying_trains, train_id) IN
         [ok   |-> found,
          secs |-> [secs EXCEPT
                      ![section_id].occupying_trains = left,
                      ![section_id].current_status =
                          IF left = <<>> THEN "available"
                          ELSE section.current_status]]

\* release_section without the membership test: the train is removed if it
\* is there and the call reports success either way.
release_result_unchecked(secs, section_id, train_id) ==
    IF section_id \notin DOMAIN secs THEN [ok |-> FALSE, secs |-> secs]
    ELSE LET section == secs[section_id]
             left    == ListRemove(section.occupying_trains, train_id) IN
         [ok   |-> TRUE,
          secs |-> [secs EXCEPT
                      ![section_id].occupying_trains = left,
                      ![section_id].current_status =
                          IF left = <<>> THEN "available"
                          ELSE section.current_status]]

\* RailwayNetwork.release_section
release_result(secs, section_id, train_id) ==
    IF section_id \notin DOMAIN secs THEN [ok |-> FALSE, secs |-> secs]
    ELSE LET section == secs[section_id] IN
         IF InList(section.occupying_trains, train_id)
         THEN LET left == ListRemove(section.occupying_trains, train_id) IN
              [ok   |-> TRUE,
               secs |-> [secs EXCEPT
                           ![section_id].occupying_trains = left,
                           ![section_id].current_status =
                               IF left = <<>> THEN "available"
                               ELSE section.current_status]]
         ELSE [ok |-> FALSE, secs |-> secs]

\* One call of a network operation: the arguments, the state it met, the
\* state it left and the flag it returned.
NetworkCall(op, section_id, train_id, res) ==
    /\ call' = [op |-> op, section_id |-> section_id, train_id |-> train_id]
    /\ before' = sections
    /\ sections' = res.secs
    /\ ret' = res.ok
    /\ just_released' =
           IF call.op = "release_section" /\ ret = TRUE
           THEN <<call.section_id, call.train_id>> ELSE <<>>
    /\ UNCHANGED <<irctc_vars, trains, callers, current_schedule>>

reserve_section(section_id, train_id) ==
    NetworkCall("reserve_section", section_id, train_id,
                reserve_result(sections, section_id, train_id))

occupy_section(section_id, train_id) ==
    NetworkCall("occupy_section", section_id, train_id,
                occupy_result(sections, section_id, train_id))

release_section(section_id, train_id) ==
    NetworkCall("release_section", section_id, train_id,
                release_result(sections, section_id, train_id))

NoCall == [op |-> "none"]

\* No thread is inside a network operation.
NoCallers == <<>>

\* RealTimeOptimizer.__init__ / SimpleRealTimeOptimizer.__init__:
\* self.current_schedule = None
Optimizers == {"SimpleRealTimeOptimizer", "RealTimeOptimizer"}
NoSchedule == [o \in Optimizers |-> <<>>]

\* A freshly built network: every section empty and unreserved, in a status
\* it can be constructed with.
InitialSections ==
    {[s \in SectionIds |-> [SampleSections[s] EXCEPT !.current_status = st[s]]] :
        st \in [SectionIds -> ConstructedStatus]}

Init ==
    /\ IrctcInit
    /\ sections \in InitialSections
    /\ trains = <<>>
    /\ call = NoCall
    /\ ret = None
    /\ before = sections
    /\ just_released = <<>>
    /\ callers = NoCallers
    /\ current_schedule = NoSchedule

Next ==
    \E section_id \in SectionIds \cup {UnknownSection}, train_id \in TrainIds :
        \/ reserve_section(section_id, train_id)
        \/ occupy_section(section_id, train_id)
        \/ release_section(section_id, train_id)

Spec == Init /\ [][Next]_vars

(***************************************************************************)
(* Python values: a call either returns a value or raises.                 *)
(***************************************************************************)
Return(v) == [exc |-> None, value |-> v]
Raise(e)  == [exc |-> e]

Max(a, b) == IF a >= b THEN a ELSE b
Min(a, b) == IF a <= b THEN a ELSE b

(***************************************************************************)
(* models/infrastructure.py: the three operations called from several      *)
(* threads (specification ConcSpec).  None of them takes a lock, so a      *)
(* thread can be suspended between any two statements: the test of the      *)
(* if and each assignment under it are steps of their own.                  *)
(***************************************************************************)
\* Bound: the threads that call into the network.
NumCallers == 2

Callers == 1..NumCallers

\* The sections the threads contend for: the junction, which takes one
\* train, and an id the network does not have.
ContendedSections == {"SEC_003", UnknownSection}

Idle == [pc |-> "idle"]

\* A thread inside operation op with its arguments, about to run the
\* statement pc.
Running(pc, c) ==
    [pc |-> pc, op |-> c.op, section_id |-> c.section_id, train_id |-> c.train_id]

\* A thread enters one of the operations.
BeginCall(c, op, section_id, train_id) ==
    /\ callers[c] = Idle
    /\ callers' = [callers EXCEPT ![c] =
                      [pc |-> "test", op |-> op, section_id |-> section_id,
                       train_id |-> train_id]]
    /\ UNCHANGED <<irctc_vars, sections, trains, call, ret, before, just_released,
                   current_schedule>>

\* Thread c stands at statement pc of operation op.
At(c, op, pc) ==
    /\ callers[c] # Idle
    /\ callers[c].op = op
    /\ callers[c].pc = pc

\* The statement of thread c writes the network as secs and goes on to next.
Statement(c, secs, next) ==
    /\ sections' = secs
    /\ callers' = [callers EXCEPT ![c] = Running(next, callers[c])]
    /\ UNCHANGED <<irctc_vars, trains, call, ret, before, just_released, current_schedule>>

\* Thread c leaves its operation with outcome, after a last write of the
\* network.
Leave(c, secs, outcome) ==
    /\ sections' = secs
    /\ callers' = [callers EXCEPT ![c] = Idle]
    /\ call' = [op |-> callers[c].op, section_id |-> callers[c].section_id,
                train_id |-> callers[c].train_id]
    /\ ret' = outcome
    /\ UNCHANGED <<irctc_vars, trains, before, just_released, current_schedule>>

\* The section thread c works on (it holds a reference to the object).
SectionOf(c) == sections[callers[c].section_id]

WriteField(c, field, value) ==
    [sections EXCEPT ![callers[c].section_id][field] = value]

\* reserve_section, lines 198-202 and 207: the two tests.
ReserveTest(c) ==
    \/ /\ At(c, "reserve_section", "test")
       /\ callers[c].section_id \in DOMAIN sections
       /\ SectionOf(c).current_status = "available"
       /\ SectionOf(c).reserved_for = None
       /\ Statement(c, sections, "set_holder")
    \/ /\ At(c, "reserve_section", "test")
       /\ ~(/\ callers[c].section_id \in DOMAIN sections
            /\ SectionOf(c).current_status = "available"
            /\ SectionOf(c).reserved_for = None)
       /\ Leave(c, sections, FALSE)

\* line 203: section.reserved_for = train_id
ReserveSetHolder(c) ==
    /\ At(c, "reserve_section", "set_holder")
    /\ Statement(c, WriteField(c, "reserved_for", callers[c].train_id),
                 "set_status")

\* lines 204-205: section.current_status = RESERVED; return True
ReserveSetStatus(c) ==
    /\ At(c, "reserve_section", "set_status")
    /\ Leave(c, WriteField(c, "current_status", "reserved"), TRUE)

\* occupy_section, lines 211-216 and 223: the two tests.
OccupyTest(c) ==
    \/ /\ At(c, "occupy_section", "test")
       /\ callers[c].section_id \in DOMAIN sections
       /\ SectionOf(c).current_status \in {"available", "reserved"}
       /\ Len(SectionOf(c).occupying_trains) < SectionOf(c).max_trains
       /\ Statement(c, sections, "append")
    \/ /\ At(c, "occupy_section", "test")
       /\ ~(/\ callers[c].section_id \in DOMAIN sections
            /\ SectionOf(c).current_status \in {"available", "reserved"}
            /\ Len(SectionOf(c).occupying_trains) < SectionOf(c).max_trains)
       /\ Leave(c, sections, FALSE)

\* line 218: section.occupying_trains.append(train_id)
OccupyAppend(c) ==
    /\ At(c, "occupy_section", "append")
    /\ Statement(c, WriteField(c, "occupying_trains",
                            Append(SectionOf(c).occupying_trains,
                                   callers[c].train_id)),
                 "set_status")

\* line 219: section.current_status = OCCUPIED
OccupySetStatus(c) ==
    /\ At(c, "occupy_section", "set_status")
    /\ Statement(c, WriteField(c, "current_status", "occupied"), "clear_holder")

\* lines 220-221: section.reserved_for = None; return True
OccupyClearHolder(c) ==
    /\ At(c, "occupy_section", "clear_holder")
    /\ Leave(c, WriteField(c, "reserved_for", None), TRUE)

\* release_section, lines 227-231 and 239: the two tests.
ReleaseTest(c) ==
    \/ /\ At(c, "release_section", "test")
       /\ callers[c].section_id \in DOMAIN sections
       /\ InList(SectionOf(c).occupying_trains, callers[c].train_id)
       /\ Statement(c, sections, "remove")
    \/ /\ At(c, "release_section", "test")
       /\ ~(/\ callers[c].section_id \in DOMAIN sections
            /\ InList(SectionOf(c).occupying_trains, callers[c].train_id))
       /\ Leave(c, sections, FALSE)

\* line 232: section.occupying_trains.remove(train_id); list.remove raises
\* ValueError when the train is no longer in the list.
ReleaseRemove(c) ==
    \/ /\ At(c, "release_section", "remove")
       /\ InList(SectionOf(c).occupying_trains, callers[c].train_id)
       /\ Statement(c, WriteField(c, "occupying_trains",
                               ListRemove(SectionOf(c).occupying_trains,
                                          callers[c].train_id)),
                    "test_empty")
    \/ /\ At(c, "release_section", "remove")
       /\ ~InList(SectionOf(c).occupying_trains, callers[c].train_id)
       /\ Leave(c, sections, Raise("ValueError"))

\* line 234: if not section.occupying_trains
ReleaseTestEmpty(c) ==
    \/ /\ At(c, "release_section", "test_empty")
       /\ SectionOf(c).occupying_trains = <<>>
       /\ Statement(c, sections, "set_status")
    \/ /\ At(c, "release_section", "test_empty")
       /\ SectionOf(c).occupying_trains # <<>>
       /\ Leave(c, sections, TRUE)

\* lines 235-237: section.current_status = AVAILABLE; return True
ReleaseSetStatus(c) ==
    /\ At(c, "release_section", "set_status")
    /\ Leave(c, WriteField(c, "current_status", "available"), TRUE)

ConcInit ==
    /\ IrctcInit
    /\ sections = SampleSections
    /\ trains = <<>>
    /\ call = NoCall
    /\ ret = None
    /\ before = sections
    /\ just_released = <<>>
    /\ callers = [c \in Callers |-> Idle]
    /\ current_schedule = NoSchedule

ConcNext ==
    \E c \in Callers :
        \/ \E op \in {"reserve_section", "occupy_section", "release_section"},
              section_id \in ContendedSections,
              train_id \in TrainIds :
               BeginCall(c, op, section_id, train_id)
        \/ ReserveTest(c)
        \/ ReserveSetHolder(c)
        \/ ReserveSetStatus(c)
        \/ OccupyTest(c)
        \/ OccupyAppend(c)
        \/ OccupySetStatus(c)
        \/ OccupyClearHolder(c)
        \/ ReleaseTest(c)
        \/ ReleaseRemove(c)
        \/ ReleaseTestEmpty(c)
        \/ ReleaseSetStatus(c)

ConcSpec == ConcInit /\ [][ConcNext]_vars

(***************************************************************************)
(* models/infrastructure.py: topology                                      *)
(***************************************************************************)
\* RailwayNetwork.adjacency_matrix of the sample network, on its sections.
AdjacencyMatrix ==
    [s \in SectionIds |->
        CASE s = "SEC_001" -> <<"SEC_003">>
          [] s = "SEC_003" -> <<"SEC_001", "SEC_004">>
          [] s = "SEC_004" -> <<"SEC_003">>]

\* get_route_sections without the adjacency test.
get_route_sections_unchecked(origin, destination) ==
    IF origin = destination THEN <<origin>> ELSE <<origin, destination>>

\* RailwayNetwork.get_route_sections
get_route_sections(origin, destination) ==
    IF origin = destination THEN <<origin>>
    ELSE IF origin \in DOMAIN AdjacencyMatrix
            /\ InList(AdjacencyMatrix[origin], destination)
         THEN <<origin, destination>>
         ELSE <<>>

(***************************************************************************)
(* models/train.py                                                         *)
(***************************************************************************)
\* class TrainType(str, Enum): member name -> value
TrainType ==
    "EXPRESS" :> "express" @@ "LOCAL" :> "local" @@ "FREIGHT" :> "freight"
        @@ "MAINTENANCE" :> "maintenance" @@ "SPECIAL" :> "special"

\* class TrainPriority(int, Enum)
TrainPriority ==
    "LOW" :> 1 @@ "MEDIUM" :> 2 @@ "HIGH" :> 3 @@ "CRITICAL" :> 4
        @@ "EMERGENCY" :> 5

\* The keys of the type_multipliers dict literal, each written TrainType.<NAME>,
\* in the order the literal evaluates them.
TypeMultiplierKeys == <<"EMERGENCY", "EXPRESS", "LOCAL", "FREIGHT", "MAINTENANCE">>

\* The values of type_multipliers, in sixtieths (2.0, 1.5, 1.0, 0.8, 0.5).
TypeMultiplier60 ==
    "EMERGENCY" :> 120 @@ "EXPRESS" :> 90 @@ "LOCAL" :> 60 @@ "FREIGHT" :> 48
        @@ "MAINTENANCE" :> 30

\* type_multipliers.get(train_type, 1.0), in sixtieths
DefaultMultiplier60 == 60

\* min(delay.total_seconds() / 3600, 2.0): the ceiling, in minutes
MaxDelayPenaltyMinutes == 120

\* A Train.  Times are minutes from a fixed epoch; actual_departure is <<>>
\* for None and <<t>> for a time.
Train(id, type, prio, orig, dest, dep, arr, actual, speed, route) ==
    [train_id            |-> id,
     train_type          |-> type,
     priority            |-> prio,
     origin_station      |-> orig,
     destination_station |-> dest,
     scheduled_departure |-> dep,
     scheduled_arrival   |-> arr,
     actual_departure    |-> actual,
     max_speed           |-> speed,
     route_sections      |-> route]

\* calculate_priority_score, in sixtieths of a point.  Building the
\* type_multipliers literal reads each TrainType.<NAME>; reading a name the
\* enum does not define raises AttributeError before anything else is
\* computed.
calculate_priority_score(train) ==
    IF \E i \in 1..Len(TypeMultiplierKeys) :
           TypeMultiplierKeys[i] \notin DOMAIN TrainType
    THEN Raise("AttributeError")
    ELSE LET base_score == train.priority
             known == {i \in 1..Len(TypeMultiplierKeys) :
                          TrainType[TypeMultiplierKeys[i]] = train.train_type}
             type_multiplier ==
                 IF known = {} THEN DefaultMultiplier60
                 ELSE TypeMultiplier60[TypeMultiplierKeys[CHOOSE i \in known : TRUE]]
             delay ==
                 IF train.actual_departure = <<>> THEN 0
                 ELSE train.actual_departure[1] - train.scheduled_departure
             delay_penalty ==
                 IF delay > 0 THEN Min(delay, MaxDelayPenaltyMinutes) ELSE 0
         IN Return(base_score * type_multiplier + delay_penalty)

\* sorted(ts, key=calculate_priority_score, reverse=True): the key is computed
\* for every element, so one raising key makes the sort raise; the sort is
\* stable, equal keys keep their order.
SortedByScore(ts) ==
    IF \E k \in 1..Len(ts) : calculate_priority_score(ts[k]).exc # None
    THEN Raise("AttributeError")
    ELSE LET score(k) == calculate_priority_score(ts[k]).value
             pos(k) == 1 + Cardinality({j \in 1..Len(ts) :
                              \/ score(j) > score(k)
                              \/ score(j) = score(k) /\ j < k})
         IN Return([p \in 1..Len(ts) |->
                       ts[CHOOSE k \in 1..Len(ts) : pos(k) = p]])

(***************************************************************************)
(* optimization/simple_scheduler.py and optimization/scheduler.py: the     *)
(* helpers both schedulers define with the same code                       *)
(***************************************************************************)
\* _get_train_route
get_train_route(train) ==
    IF train.route_sections # <<>> THEN train.route_sections
    ELSE get_route_sections(train.origin_station, train.destination_station)

\* The default duration of an unknown section or a non-positive speed.
DefaultTravelMinutes == 10

\* buffer_minutes: {...}.get(section.section_type.value, 2)
BufferMinutes(section_type) ==
    CASE section_type = "platform" -> 5
      [] section_type = "junction" -> 3
      [] section_type = "single_line" -> 2
      [] section_type = "double_line" -> 1
      [] OTHER -> 2

\* The whole minutes of length / speed, exactly: floor(60 * km / kmh).
WholeMinutes(length_km10, speed_kmh) ==
    (length_km10 * 60) \div (speed_kmh * 10)

\* travel_hours = distance_km / speed_kmh and travel_hours * 60 are computed
\* in IEEE-754 doubles, each operation rounded to the nearest double.  For
\* these (length in tenths of a kilometre, speed) pairs, among the lengths
\* 0.4, 2.1, 15.5 and 82.0 km and the speeds 40 and 100 km/h, the exact
\* result is a whole number of minutes and the rounded product lies just
\* below it: 82.0 / 40 = 2.05 (rounded down), 2.05 * 60 = 122.99999999999999.
DoubleProductFallsShort == {<<820, 40>>}

\* int(travel_hours * 60): the double product, truncated.
TruncatedMinutes(length_km10, speed_kmh) ==
    IF <<length_km10, speed_kmh>> \in DoubleProductFallsShort
    THEN WholeMinutes(length_km10, speed_kmh) - 1
    ELSE WholeMinutes(length_km10, speed_kmh)

\* _estimate_section_travel_time: int(distance_km / speed_kmh * 60) plus the
\* buffer of the section type, at least 1.
estimate_section_travel_time(secs, train, section_id) ==
    IF section_id \notin DOMAIN secs THEN DefaultTravelMinutes
    ELSE LET section == secs[section_id]
             speed_kmh == Min(train.max_speed, section.max_speed_limit)
         IN IF speed_kmh > 0
            THEN LET travel_minutes ==
                         TruncatedMinutes(section.length_km10, speed_kmh)
                 IN Max(travel_minutes + BufferMinutes(section.section_type), 1)
            ELSE DefaultTravelMinutes

(***************************************************************************)
(* optimization/simple_scheduler.py: SimpleTrainScheduler                  *)
(***************************************************************************)
\* The minutes train needs for the first n sections of route.
RECURSIVE TravelSum(_, _, _, _)
TravelSum(secs, train, route, n) ==
    IF n = 0 THEN 0
    ELSE TravelSum(secs, train, route, n - 1)
             + estimate_section_travel_time(secs, train, route[n])

\* _schedule_single_train: <<>> for None, else <<train_schedule>>.  The clock
\* starts at 0 for every train and advances by each section's travel time.
schedule_single_train(secs, train) ==
    LET route_sections == get_train_route(train) IN
    IF route_sections = <<>> THEN <<>>
    ELSE <<[train_id |-> train.train_id,
            priority |-> train.priority,
            sections |->
                [i \in 1..Len(route_sections) |->
                    LET current_time ==
                            TravelSum(secs, train, route_sections, i - 1)
                        travel_time ==
                            estimate_section_travel_time(secs, train,
                                                         route_sections[i])
                    IN [section_id |-> route_sections[i],
                        start_time |-> current_time,
                        end_time   |-> current_time + travel_time,
                        duration   |-> travel_time]]]>>

\* The loop of optimize_schedule over the sorted trains: the schedules of the
\* trains that have one, in order.
RECURSIVE ScheduledTrains(_, _)
ScheduledTrains(secs, sorted_trains) ==
    IF sorted_trains = <<>> THEN <<>>
    ELSE schedule_single_train(secs, Head(sorted_trains))
             \o ScheduledTrains(secs, Tail(sorted_trains))

\* The baseline completion time delays are counted from.
BaselineMinutes == 120

\* total_delay: max(0, end of the last section - 120) over the schedules.
RECURSIVE TotalDelay(_)
TotalDelay(scheduled) ==
    IF scheduled = <<>> THEN 0
    ELSE LET secs_of == Head(scheduled).sections IN
         Max(0, secs_of[Len(secs_of)].end_time - BaselineMinutes)
             + TotalDelay(Tail(scheduled))

\* SimpleTrainScheduler.optimize_schedule.  average_delay is kept as the
\* fraction total_delay / max(len(scheduled_trains), 1).
simple_optimize_schedule(secs, ts) ==
    LET sorted_trains == SortedByScore(ts) IN
    IF sorted_trains.exc # None THEN sorted_trains
    ELSE LET scheduled_trains == ScheduledTrains(secs, sorted_trains.value) IN
         Return([status    |-> "optimal",
                 trains    |-> scheduled_trains,
                 movements |-> <<>>,
                 metrics   |->
                     [total_trains     |-> Len(ts),
                      scheduled_trains |-> Len(scheduled_trains),
                      average_delay    |->
                          [num |-> TotalDelay(scheduled_trains),
                           den |-> Max(Len(scheduled_trains), 1)],
                      solver_status    |-> "OPTIMAL"]])

(***************************************************************************)
(* detect_conflicts and resolve_conflicts (the same code in both           *)
(* schedulers, but for the delay and confidence of a resolution)           *)
(***************************************************************************)
\* Every (train, section) stop in the order the grouping loop meets it.
RECURSIVE Stops(_, _)
Stops(ts, k) ==
    IF k > Len(ts) THEN <<>>
    ELSE [i \in 1..Len(get_train_route(ts[k])) |->
             [train |-> k, section_id |-> get_train_route(ts[k])[i]]]
         \o Stops(ts, k + 1)

\* The keys of section_usage in insertion order.
RECURSIVE SectionOrder(_, _)
SectionOrder(stops, seen) ==
    IF stops = <<>> THEN <<>>
    ELSE IF Head(stops).section_id \in seen
         THEN SectionOrder(Tail(stops), seen)
         ELSE <<Head(stops).section_id>>
                  \o SectionOrder(Tail(stops), seen \cup {Head(stops).section_id})

\* section_usage[section_id]: the trains (as positions of ts) appended for it,
\* one entry per stop.
SectionUsage(stops, section_id) ==
    LET hits == SelectSeq(stops, LAMBDA st : st.section_id = section_id)
    IN [i \in 1..Len(hits) |-> hits[i].train]

\* for i in range(n): for j in range(i + 1, n), as a list of pairs
RECURSIVE PairsFrom(_, _, _)
PairsFrom(i, j, n) ==
    IF i > n THEN <<>>
    ELSE IF j > n THEN PairsFrom(i + 1, i + 2, n)
    ELSE <<<<i, j>>>> \o PairsFrom(i, j + 1, n)

TrainConflict(train1, train2, section_id) ==
    [conflict_id    |-> "CONF_" \o train1.train_id \o "_" \o train2.train_id
                            \o "_" \o section_id,
     train_ids      |-> <<train1.train_id, train2.train_id>>,
     section_id     |-> section_id,
     conflict_type  |-> "capacity_exceeded",
     conflict_start |-> Min(train1.scheduled_departure,
                            train2.scheduled_departure),
     conflict_end   |-> Max(train1.scheduled_arrival, train2.scheduled_arrival),
     severity       |-> 3,
     resolved       |-> FALSE]

\* The conflicts of one section when a section the network does not have
\* counts as one of capacity 1.
SectionConflicts_unknown_as_single(secs, ts, stops, section_id) ==
    LET trains_in_section == SectionUsage(stops, section_id)
        n == Len(trains_in_section)
    IN IF n > 1 /\ (section_id \in DOMAIN secs => n > secs[section_id].max_trains)
       THEN LET pairs == PairsFrom(1, 2, n) IN
            [p \in 1..Len(pairs) |->
                TrainConflict(ts[trains_in_section[pairs[p][1]]],
                              ts[trains_in_section[pairs[p][2]]],
                              section_id)]
       ELSE <<>>

\* The conflicts of one section: none unless the section is known and more
\* stops than max_trains name it, else one per pair of entries.
SectionConflicts(secs, ts, stops, section_id) ==
    LET trains_in_section == SectionUsage(stops, section_id)
        n == Len(trains_in_section)
    IN IF n > 1 /\ section_id \in DOMAIN secs /\ n > secs[section_id].max_trains
       THEN LET pairs == PairsFrom(1, 2, n) IN
            [p \in 1..Len(pairs) |->
                TrainConflict(ts[trains_in_section[pairs[p][1]]],
                              ts[trains_in_section[pairs[p][2]]],
                              section_id)]
       ELSE <<>>

RECURSIVE ConflictsOver(_, _, _, _)
ConflictsOver(secs, ts, stops, order) ==
    IF order = <<>> THEN <<>>
    ELSE SectionConflicts(secs, ts, stops, Head(order))
             \o ConflictsOver(secs, ts, stops, Tail(order))

\* detect_conflicts
detect_conflicts(secs, ts) ==
    LET stops == Stops(ts, 1) IN
    ConflictsOver(secs, ts, stops, SectionOrder(stops, {}))

\* random.randint(10, 30) of SimpleTrainScheduler.resolve_conflicts
RandintLow == 10
RandintHigh == 30

\* estimated_delay of TrainScheduler.resolve_conflicts
FixedDelayMinutes == 15

\* The delays and the confidence (in hundredths) a scheduler writes into a
\* resolution.
ResolutionDelays(scheduler) ==
    IF scheduler = "SimpleTrainScheduler" THEN RandintLow..RandintHigh
    ELSE {FixedDelayMinutes}

ResolutionConfidence(scheduler) ==
    IF scheduler = "SimpleTrainScheduler" THEN 85 ELSE 80

\* [train_dict[tid] for tid in conflict.train_ids if tid in train_dict];
\* train_dict keeps the last train of each id.
ConflictingTrains(conflict, ts) ==
    LET ids == SelectSeq(conflict.train_ids,
                         LAMBDA tid : \E k \in 1..Len(ts) : ts[k].train_id = tid)
    IN [i \in 1..Len(ids) |->
           ts[CHOOSE k \in 1..Len(ts) :
                  /\ ts[k].train_id = ids[i]
                  /\ \A j \in (k + 1)..Len(ts) : ts[j].train_id # ids[i]]]

\* resolve_conflicts: every list of resolutions the call can return (the
\* simple scheduler draws each delay at random), or the exception it raises.
\* The 'action' text of a resolution repeats its other fields and is left out.
RECURSIVE resolve_conflicts(_, _, _)
resolve_conflicts(scheduler, conflicts, ts) ==
    IF conflicts = <<>> THEN {Return(<<>>)}
    ELSE LET conflict == Head(conflicts)
             conflicting_trains == ConflictingTrains(conflict, ts)
             rest == resolve_conflicts(scheduler, Tail(conflicts), ts)
         IN IF Len(conflicting_trains) >= 2
            THEN LET sorted_trains == SortedByScore(conflicting_trains) IN
                 IF sorted_trains.exc # None THEN {sorted_trains}
                 ELSE {IF r.exc # None THEN r
                       ELSE Return(
                           <<[conflict_id    |-> conflict.conflict_id,
                              strategy       |-> "priority_based_delay",
                              affected_train |-> sorted_trains.value[2].train_id,
                              priority_train |-> sorted_trains.value[1].train_id,
                              estimated_delay |-> d,
                              confidence     |-> ResolutionConfidence(scheduler)]>>
                           \o r.value) :
                       r \in rest, d \in ResolutionDelays(scheduler)}
            ELSE rest

(***************************************************************************)
(* optimization/scheduler.py: TrainScheduler                               *)
(***************************************************************************)
\* time_units = time_horizon_hours * 60
MinutesPerHour == 60

\* The decision variables NewIntVar creates: a (start, end) pair for every
\* train (position k of the list) and every position i of its route.
CPVars(ts) ==
    UNION {{<<k, i>> : i \in 1..Len(get_train_route(ts[k]))} : k \in 1..Len(ts)}

\* train_vars[train_id][section_id] once positions 1..upto of the route are
\* registered: the dict is keyed by section id, so a later position of the
\* same section replaces the earlier one.
LatestPosition(route, section_id, upto) ==
    CHOOSE i \in 1..upto :
        /\ route[i] = section_id
        /\ \A j \in (i + 1)..upto : route[j] # section_id

\* end_var >= start_var + travel_time, for every variable pair
CPDuration(secs, ts, a) ==
    \A v \in CPVars(ts) :
        a[v].end >= a[v].start
            + estimate_section_travel_time(secs, ts[v[1]],
                                           get_train_route(ts[v[1]])[v[2]])

\* start_var >= prev_end for i > 0, prev_end read from train_vars after the
\* pair of position i has been stored in it.
CPSequential(ts, a) ==
    \A v \in CPVars(ts) :
        v[2] > 1 =>
            LET route == get_train_route(ts[v[1]]) IN
            a[v].start >=
                a[<<v[1], LatestPosition(route, route[v[2] - 1], v[2])>>].end

\* The pair train_vars holds for a train and a section when the loops end.
FinalVar(ts, k, section_id) ==
    LET route == get_train_route(ts[k]) IN
    <<k, LatestPosition(route, section_id, Len(route))>>

\* The ordering constraints: only for the sections whose max_trains is 1, one
\* boolean per pair of trains whose routes hold the section.
CPNoOverlap(secs, ts, a) ==
    \A section_id \in DOMAIN secs :
        secs[section_id].max_trains = 1 =>
            \A k1, k2 \in 1..Len(ts) :
                (/\ k1 < k2
                 /\ InList(get_train_route(ts[k1]), section_id)
                 /\ InList(get_train_route(ts[k2]), section_id)) =>
                    \/ a[FinalVar(ts, k1, section_id)].end
                           <= a[FinalVar(ts, k2, section_id)].start
                    \/ a[FinalVar(ts, k2, section_id)].end
                           <= a[FinalVar(ts, k1, section_id)].start

\* The assignments of the variables, each in 0..time_units, that satisfy the
\* constraints of the model.
CPFeasible(secs, ts, time_units) ==
    {a \in [CPVars(ts) -> [start : 0..time_units, end : 0..time_units]] :
        /\ CPDuration(secs, ts, a)
        /\ CPSequential(ts, a)
        /\ CPNoOverlap(secs, ts, a)}

\* _extract_solution: one entry per train of the list, one segment per route
\* position, its times read from train_vars by section id.
extract_solution(ts, a, status_name) ==
    [status    |-> "optimal",
     trains    |->
         [k \in 1..Len(ts) |->
             [train_id |-> ts[k].train_id,
              priority |-> ts[k].priority,
              sections |->
                  [i \in 1..Len(get_train_route(ts[k])) |->
                      LET section_id == get_train_route(ts[k])[i]
                          v == FinalVar(ts, k, section_id)
                      IN [section_id |-> section_id,
                          start_time |-> a[v].start,
                          end_time   |-> a[v].end,
                          duration   |-> a[v].end - a[v].start]]]],
     movements |-> <<>>,
     metrics   |->
         [total_trains     |-> Len(ts),
          scheduled_trains |-> Len(ts),
          average_delay    |-> [num |-> 0, den |-> Max(Len(ts), 1)],
          solver_status    |-> status_name]]

\* The dict returned when the solver reports no solution.
InfeasibleSchedule ==
    [status |-> "infeasible", trains |-> <<>>, conflicts |-> <<>>,
     metrics |-> <<>>]

\* The constant the priority score is subtracted from in the objective, in
\* sixtieths (10).
ObjectiveBase60 == 600

\* The objective: completion_time * (10 - priority_weight) summed over the
\* trains that have a route, the completion time being the end of the pair
\* train_vars holds for the last section of the route.
RECURSIVE CPObjective(_, _, _)
CPObjective(ts, a, k) ==
    IF k > Len(ts) THEN 0
    ELSE LET route == get_train_route(ts[k]) IN
         (IF route = <<>> THEN 0
          ELSE a[FinalVar(ts, k, route[Len(route)])].end
                   * (ObjectiveBase60 - calculate_priority_score(ts[k]).value))
         + CPObjective(ts, a, k + 1)

\* TrainScheduler.optimize_schedule: what the call can return or raise.  The
\* model is built, then the objective loop asks calculate_priority_score
\* for every train, then the solver runs.  The solver is CP-SAT, outside
\* the repository: it reports OPTIMAL with an assignment of least objective,
\* FEASIBLE with any assignment that satisfies the constraints (its 30 s ran
\* out first), or no solution.  The wall time in the metrics is left out.
cp_optimize_schedule(secs, ts, time_horizon_hours) ==
    IF \E k \in 1..Len(ts) : calculate_priority_score(ts[k]).exc # None
    THEN {Raise("AttributeError")}
    ELSE LET feasible == CPFeasible(secs, ts, time_horizon_hours * MinutesPerHour)
             optimal == {a \in feasible :
                            \A b \in feasible :
                                CPObjective(ts, a, 1) <= CPObjective(ts, b, 1)}
         IN IF feasible = {} THEN {Return(InfeasibleSchedule)}
            ELSE {Return(extract_solution(ts, a, "OPTIMAL")) : a \in optimal}
                 \cup {Return(extract_solution(ts, a, "FEASIBLE")) : a \in feasible}

(***************************************************************************)
(* The scheduling entry points applied to a list of trains                 *)
(* (specification SchedSpec).                                              *)
(***************************************************************************)
\* Bounds: the trains of a list, and the planning horizons tried, in hours.
MaxTrains == 2
MaxHorizonHours == 1

\* Explicit routes: one section, two sections, a route that comes back to
\* its first section, a route through a section the network does not have,
\* and no explicit route.
RouteChoices ==
    {<<"SEC_003">>,
     <<"SEC_001", "SEC_003">>,
     <<"SEC_003", "SEC_004">>,
     <<"SEC_001", "SEC_003", "SEC_001">>,
     <<"SEC_003", UnknownSection>>,
     <<>>}

\* Origin and destination: adjacent sections, and two that are not (the
\* latter only for trains without an explicit route).
StationChoices == {<<"SEC_001", "SEC_003">>, <<"SEC_001", "SEC_004">>}

TypeChoices == {TrainType["EXPRESS"], TrainType["FREIGHT"]}
PriorityChoices == {TrainPriority["LOW"], TrainPriority["HIGH"]}
DepartureChoices == {0, 30}

\* The default max_speed of a Train, and the two hours the sample trains are
\* given from departure to arrival.
DefaultMaxSpeed == 100
SampleTripMinutes == 120

\* time_horizon_hours: int = 24, the horizon of a call that passes none.
DefaultHorizonHours == 24

\* The lists of at most max trains; the train at position k is "Tk".
TrainLists(max) ==
    UNION {
        {[k \in 1..n |->
             Train("T" \o ToString(k), c[k][1], c[k][2], c[k][3][1], c[k][3][2],
                   c[k][4], c[k][4] + SampleTripMinutes, <<>>, DefaultMaxSpeed,
                   c[k][5])] :
         c \in [1..n -> {x \in TypeChoices \X PriorityChoices \X StationChoices
                              \X DepartureChoices \X RouteChoices :
                            x[3] = <<"SEC_001", "SEC_003">> \/ x[5] = <<>>}]} :
        n \in 0..max}

SchedInit ==
    /\ IrctcInit
    /\ sections = SampleSections
    /\ trains \in TrainLists(MaxTrains)
    /\ call = NoCall
    /\ ret = None
    /\ before = sections
    /\ just_released = <<>>
    /\ callers = NoCallers
    /\ current_schedule = NoSchedule

\* A scheduling call that marks every section of the network reserved while
\* it plans.
SchedCall_reserving(c, outcome) ==
    /\ call' = c
    /\ ret' = outcome
    /\ before' = sections
    /\ sections' = [s \in DOMAIN sections |->
                       [sections[s] EXCEPT !.current_status = "reserved"]]
    /\ UNCHANGED <<irctc_vars, trains, just_released, callers, current_schedule>>

\* One call of a scheduling entry point: none of them writes the network or
\* the trains.
SchedCall(c, outcome) ==
    /\ call' = c
    /\ ret' = outcome
    /\ before' = sections
    /\ UNCHANGED <<irctc_vars, sections, trains, just_released, callers, current_schedule>>

\* calculate_priority_score(trains[k])
CallPriorityScore(k) ==
    SchedCall([op |-> "calculate_priority_score", train |-> k],
              calculate_priority_score(trains[k]))

\* SimpleTrainScheduler(network).optimize_schedule(trains)
CallSimpleOptimize ==
    SchedCall([op |-> "optimize_schedule", scheduler |-> "SimpleTrainScheduler"],
              simple_optimize_schedule(sections, trains))

\* TrainScheduler(network).optimize_schedule(trains, time_horizon_hours)
CallCPOptimize(time_horizon_hours) ==
    \E outcome \in cp_optimize_schedule(sections, trains, time_horizon_hours) :
        SchedCall([op |-> "optimize_schedule", scheduler |-> "TrainScheduler",
                   time_horizon_hours |-> time_horizon_hours],
                  outcome)

\* scheduler.detect_conflicts(trains)
CallDetectConflicts ==
    SchedCall([op |-> "detect_conflicts"],
              Return(detect_conflicts(sections, trains)))

\* scheduler.resolve_conflicts(scheduler.detect_conflicts(trains), trains)
CallResolveConflicts(scheduler) ==
    \E outcome \in resolve_conflicts(scheduler,
                                     detect_conflicts(sections, trains), trains) :
        SchedCall([op |-> "resolve_conflicts", scheduler |-> scheduler],
                  outcome)

Schedulers == {"SimpleTrainScheduler", "TrainScheduler"}

SchedNext ==
    \/ \E k \in 1..Len(trains) : CallPriorityScore(k)
    \/ CallSimpleOptimize
    \/ \E h \in 0..MaxHorizonHours : CallCPOptimize(h)
    \/ CallDetectConflicts
    \/ \E scheduler \in Schedulers : CallResolveConflicts(scheduler)

SchedSpec == SchedInit /\ [][SchedNext]_vars

(***************************************************************************)
(* ConflictSpec: detect_conflicts and resolve_conflicts applied to lists   *)
(* of trains that differ in route and departure only, as the endpoints     *)
(* /api/conflicts/detect and /api/conflicts/resolve apply them to the      *)
(* active trains.                                                          *)
(***************************************************************************)
ConflictTrainLists(max) ==
    UNION {
        {[k \in 1..n |->
             Train("T" \o ToString(k), TrainType["EXPRESS"],
                   TrainPriority["HIGH"], "SEC_001", "SEC_003",
                   c[k][1], c[k][1] + SampleTripMinutes, <<>>, DefaultMaxSpeed,
                   c[k][2])] :
         c \in [1..n -> DepartureChoices \X RouteChoices]} :
        n \in 0..max}

ConflictInit ==
    /\ IrctcInit
    /\ sections = SampleSections
    /\ trains \in ConflictTrainLists(MaxTrains)
    /\ call = NoCall
    /\ ret = None
    /\ before = sections
    /\ just_released = <<>>
    /\ callers = NoCallers
    /\ current_schedule = NoSchedule

ConflictNext ==
    \/ CallDetectConflicts
    \/ \E scheduler \in Schedulers : CallResolveConflicts(scheduler)

ConflictSpec == ConflictInit /\ [][ConflictNext]_vars

(***************************************************************************)
(* The helpers of the schedulers applied to one train (specification       *)
(* HelperSpec): _get_train_route, _estimate_section_travel_time and         *)
(* calculate_priority_score, over trains and sections the scheduling        *)
(* lists above do not hold.                                                 *)
(***************************************************************************)
\* class SectionType(str, Enum): the values
SectionType ==
    {"single_line", "double_line", "multiple_line", "junction", "yard",
     "platform"}

\* What SEC_001 is in a run: a section of each type, a short, a medium and a
\* long one, and one whose speed limit is 0.
SectionVariants ==
    {TrackSection(t, 155, 100, 1) : t \in SectionType}
        \cup {TrackSection("double_line", l, 100, 1) : l \in {4, 21, 820}}
        \cup {TrackSection("double_line", 155, 0, 1)}

\* Origins and destinations: the same section twice, adjacent sections,
\* sections that are not adjacent, and an origin the network does not have.
HelperOrigins == {"SEC_001", "SEC_003", UnknownSection}
HelperDestinations == {"SEC_001", "SEC_003", "SEC_004"}

\* An explicit route, or none.
HelperRoutes == {<<"SEC_003", "SEC_004">>, <<>>}

\* The scheduled departure of the train, and its actual departure: none,
\* early, on time, half an hour late, three and a half hours late.
HelperDeparture == 30
HelperActualDepartures == {<<>>, <<20>>, <<30>>, <<60>>, <<240>>}

\* max_speed: the default, a slow train, and 0.
HelperSpeeds == {DefaultMaxSpeed, 40, 0}

HelperTrains ==
    {Train("T1", TrainType[kind], prio, orig, dest, HelperDeparture,
           HelperDeparture + SampleTripMinutes, actual, speed, route) :
        kind \in DOMAIN TrainType,
        prio \in {TrainPriority["LOW"], TrainPriority["EMERGENCY"]},
        orig \in HelperOrigins, dest \in HelperDestinations,
        actual \in HelperActualDepartures, speed \in HelperSpeeds,
        route \in HelperRoutes}

HelperInit ==
    /\ IrctcInit
    /\ sections \in {[SampleSections EXCEPT !["SEC_001"] = v] :
                        v \in SectionVariants}
    /\ trains \in {<<t>> : t \in HelperTrains}
    /\ call = NoCall
    /\ ret = None
    /\ before = sections
    /\ just_released = <<>>
    /\ callers = NoCallers
    /\ current_schedule = NoSchedule

\* scheduler._get_train_route(trains[0])
CallGetTrainRoute ==
    SchedCall([op |-> "_get_train_route", train |-> 1],
              Return(get_train_route(trains[1])))

\* scheduler._estimate_section_travel_time(trains[0], section_id)
CallEstimateTravelTime(section_id) ==
    SchedCall([op |-> "_estimate_section_travel_time", train |-> 1,
               section_id |-> section_id],
              Return(estimate_section_travel_time(sections, trains[1],
                                                  section_id)))

HelperNext ==
    \/ CallGetTrainRoute
    \/ \E section_id \in SectionIds \cup {UnknownSection} :
           CallEstimateTravelTime(section_id)
    \/ CallPriorityScore(1)

HelperSpec == HelperInit /\ [][HelperNext]_vars

(***************************************************************************)
(* optimization/scheduler.py: RealTimeOptimizer, and                       *)
(* optimization/simple_scheduler.py: SimpleRealTimeOptimizer (the same      *)
(* code around the two schedulers), called as api/main.py calls them on     *)
(* its list of active trains (specification UpdateSpec).                    *)
(***************************************************************************)
\* The scheduler each re-optimizer is built around.
SchedulerOf ==
    "SimpleRealTimeOptimizer" :> "SimpleTrainScheduler"
        @@ "RealTimeOptimizer" :> "TrainScheduler"

\* self.scheduler.optimize_schedule(trains): the outcomes the call can have.
scheduler_optimize_schedule(scheduler, secs, ts) ==
    IF scheduler = "SimpleTrainScheduler"
    THEN {simple_optimize_schedule(secs, ts)}
    ELSE cp_optimize_schedule(secs, ts, DefaultHorizonHours)

\* disruption.get('delay_minutes', 0): delay_minutes is <<>> when the dict
\* has no such key.
DelayMinutes(disruption) ==
    IF disruption.delay_minutes = <<>> THEN 0 ELSE disruption.delay_minutes[1]

\* The loop body of _apply_disruptions with the arrival left where it was.
ApplyDisruption_departure_only(ts, disruption) ==
    LET hits == {k \in 1..Len(ts) : ts[k].train_id = disruption.train_id} IN
    IF disruption.type # "delay" \/ hits = {} THEN ts
    ELSE LET k == CHOOSE h \in hits : \A g \in hits : h <= g IN
         [ts EXCEPT ![k].scheduled_departure = @ + DelayMinutes(disruption)]

\* The body of the loop of _apply_disruptions: a 'delay' moves the departure
\* and the arrival of the first train with the id; anything else is ignored.
ApplyDisruption(ts, disruption) ==
    LET hits == {k \in 1..Len(ts) : ts[k].train_id = disruption.train_id} IN
    IF disruption.type # "delay" \/ hits = {} THEN ts
    ELSE LET k == CHOOSE h \in hits : \A g \in hits : h <= g IN
         [ts EXCEPT ![k].scheduled_departure = @ + DelayMinutes(disruption),
                    ![k].scheduled_arrival = @ + DelayMinutes(disruption)]

\* _apply_disruptions: the trains are changed in place.
RECURSIVE apply_disruptions(_, _)
apply_disruptions(ts, disruptions) ==
    IF disruptions = <<>> THEN ts
    ELSE apply_disruptions(ApplyDisruption(ts, Head(disruptions)),
                           Tail(disruptions))

\* schedule.get('metrics', {}).get('average_delay', default) < ... : the new
\* average (default 0) is below the old one (default infinity).
AverageImproved(old_schedule, new_schedule) ==
    IF old_schedule.metrics = <<>> THEN TRUE
    ELSE LET old_delay == old_schedule.metrics.average_delay
             new_delay == IF new_schedule.metrics = <<>>
                          THEN [num |-> 0, den |-> 1]
                          ELSE new_schedule.metrics.average_delay
         IN new_delay.num * old_delay.den < old_delay.num * new_delay.den

\* _calculate_schedule_impact(old_schedule, new_schedule); old is <<>> for
\* None and <<schedule>> for a dict.  A schedule returned by a scheduler is
\* never an empty dict.
calculate_schedule_impact(old, new_schedule) ==
    IF old = <<>> THEN [changes |-> 0, affected_trains |-> <<>>]
    ELSE LET old_schedule == old[1]
             difference == Len(new_schedule.trains) - Len(old_schedule.trains)
         IN [changes         |-> IF difference < 0 THEN -difference
                                 ELSE difference,
             affected_trains |-> [i \in 1..Len(new_schedule.trains) |->
                                     new_schedule.trains[i].train_id],
             improvement     |-> AverageImproved(old_schedule, new_schedule)]

\* Bound: update_schedule is not called with disruptions that move a
\* departure past this minute, or as far before minute 0.
MaxDepartureMinutes == 15

\* The disruption lists of a call: none, a delay of 15 minutes for a train,
\* a negative delay, a delay without delay_minutes, and a disruption of
\* another type.
TestDelayMinutes == 15

DisruptionLists ==
    {<<>>}
        \cup {<<[type |-> "delay", train_id |-> t,
                 delay_minutes |-> <<d>>]>> :
                 t \in TrainIds, d \in {TestDelayMinutes, -TestDelayMinutes}}
        \cup {<<[type |-> "delay", train_id |-> "T1", delay_minutes |-> <<>>]>>,
              <<[type |-> "breakdown", train_id |-> "T1",
                 delay_minutes |-> <<TestDelayMinutes>>]>>}

\* The trains a client posts.
PostedTrains ==
    {Train(id, TrainType["EXPRESS"], TrainPriority["HIGH"], "SEC_001",
           "SEC_003", 0, SampleTripMinutes, <<>>, DefaultMaxSpeed, route) :
        id \in TrainIds,
        route \in {<<"SEC_001", "SEC_003">>, <<"SEC_003">>}}

\* api/main.py create_train: unless its id is taken, the train is appended,
\* with the route of get_route_sections when it brings none.
create_train(train) ==
    /\ \A k \in 1..Len(trains) : trains[k].train_id # train.train_id
    /\ trains' = Append(trains, [train EXCEPT
                                    !.route_sections = get_train_route(train)])
    /\ call' = [op |-> "create_train", train_id |-> train.train_id]
    /\ ret' = None
    /\ before' = sections
    /\ UNCHANGED <<irctc_vars, sections, just_released, callers, current_schedule>>

\* api/main.py delete_train: the train with the id is popped from the list.
delete_train(train_id) ==
    /\ \E k \in 1..Len(trains) : trains[k].train_id = train_id
    /\ trains' = SelectSeq(trains, LAMBDA t : t.train_id # train_id)
    /\ call' = [op |-> "delete_train", train_id |-> train_id]
    /\ ret' = None
    /\ before' = sections
    /\ UNCHANGED <<irctc_vars, sections, just_released, callers, current_schedule>>

\* optimizer.update_schedule(active_trains, disruptions).  The disruptions
\* are applied to the caller's trains before the scheduler runs; when the
\* scheduler raises, the call ends there and current_schedule keeps its
\* value.  call.retained is current_schedule as the call met it and
\* call.given the trains as they were passed.  The update_time of the result
\* is left out.
update_schedule(optimizer, disruptions) ==
    /\ LET disrupted == apply_disruptions(trains, disruptions) IN
       /\ \A k \in 1..Len(disrupted) :
              /\ disrupted[k].scheduled_departure <= MaxDepartureMinutes
              /\ disrupted[k].scheduled_departure >= -MaxDepartureMinutes
       /\ \E outcome \in scheduler_optimize_schedule(SchedulerOf[optimizer],
                                                     sections, disrupted) :
           /\ trains' = disrupted
           /\ call' = [op |-> "update_schedule", optimizer |-> optimizer,
                       disruptions |-> disruptions, given |-> trains,
                       retained |-> current_schedule[optimizer]]
           /\ IF outcome.exc # None
              THEN /\ ret' = outcome
                   /\ UNCHANGED current_schedule
              ELSE /\ ret' = Return(
                          [schedule |-> outcome.value,
                           impact   |-> calculate_schedule_impact(
                                            current_schedule[optimizer],
                                            outcome.value)])
                   /\ current_schedule' =
                          [current_schedule EXCEPT
                               ![optimizer] = <<outcome.value>>]
    /\ before' = sections
    /\ UNCHANGED <<irctc_vars, sections, just_released, callers>>

UpdateInit ==
    /\ IrctcInit
    /\ sections = SampleSections
    /\ trains = <<>>
    /\ call = NoCall
    /\ ret = None
    /\ before = sections
    /\ just_released = <<>>
    /\ callers = NoCallers
    /\ current_schedule = NoSchedule

UpdateNext ==
    \/ \E train \in PostedTrains : create_train(train)
    \/ \E train_id \in TrainIds : delete_train(train_id)
    \/ \E optimizer \in Optimizers, disruptions \in DisruptionLists :
           update_schedule(optimizer, disruptions)

UpdateSpec == UpdateInit /\ [][UpdateNext]_vars

(***************************************************************************)
(* RepeatSpec: a client that calls update_schedule several times in a row  *)
(* with the same disruptions on the list of active trains.                 *)
(***************************************************************************)
\* One update_schedule call as a function of what it meets: the trains, the
\* retained schedule and the result (or exception) it can leave behind.
update_schedule_result(optimizer, secs, ts, retained, disruptions) ==
    LET disrupted == apply_disruptions(ts, disruptions) IN
    {[trains   |-> disrupted,
      retained |-> IF outcome.exc # None THEN retained ELSE <<outcome.value>>,
      ret      |-> IF outcome.exc # None THEN outcome
                   ELSE Return([schedule |-> outcome.value,
                                impact   |-> calculate_schedule_impact(
                                                 retained, outcome.value)])] :
        outcome \in scheduler_optimize_schedule(SchedulerOf[optimizer], secs,
                                                disrupted)}

\* n calls one after the other, each on what the one before left behind.
RECURSIVE update_schedule_runs(_, _, _, _, _, _)
update_schedule_runs(optimizer, secs, ts, retained, disruptions, n) ==
    IF n = 1
    THEN update_schedule_result(optimizer, secs, ts, retained, disruptions)
    ELSE UNION {update_schedule_result(optimizer, secs, r.trains, r.retained,
                                       disruptions) :
                   r \in update_schedule_runs(optimizer, secs, ts, retained,
                                              disruptions, n - 1)}

\* Bound: the number of calls in a row.
MaxCalls == 3

\* for _ in range(n): optimizer.update_schedule(active_trains, disruptions),
\* the caller going on after an exception.  Bound: the run starts from
\* trains that are at the departure they were posted with.  call.given is
\* the list as the first call got it, ret the outcome of the last call.
RepeatedUpdate(optimizer, disruptions, n) ==
    /\ \A k \in 1..Len(trains) : trains[k].scheduled_departure = 0
    /\ \E r \in update_schedule_runs(optimizer, sections, trains,
                                     current_schedule[optimizer],
                                     disruptions, n) :
           /\ trains' = r.trains
           /\ ret' = r.ret
           /\ current_schedule' =
                  [current_schedule EXCEPT ![optimizer] = r.retained]
    /\ call' = [op |-> "update_schedule_repeated", optimizer |-> optimizer,
                disruptions |-> disruptions, given |-> trains, times |-> n]
    /\ before' = sections
    /\ UNCHANGED <<irctc_vars, sections, just_released, callers>>

RepeatNext ==
    \/ \E train \in PostedTrains : create_train(train)
    \/ \E train_id \in TrainIds : delete_train(train_id)
    \/ \E optimizer \in Optimizers, disruptions \in DisruptionLists,
          n \in 1..MaxCalls :
           RepeatedUpdate(optimizer, disruptions, n)

RepeatSpec == UpdateInit /\ [][RepeatNext]_vars

(***************************************************************************)
(* RaceSpec: update_schedule called from several threads on the same       *)
(* re-optimizers and the same list of trains.  Neither class takes a lock; *)
(* a thread can be preempted between any two statements of the method.     *)
(* The call of optimize_schedule is taken as one step: for a non-empty     *)
(* list it raises before the solver is run, and for the empty list every   *)
(* model the threads can share through self.model is the empty one.        *)
(***************************************************************************)
\* The lists the threads are handed: the empty one and one train.
RaceTrainLists ==
    {<<>>,
     <<Train("T1", TrainType["EXPRESS"], TrainPriority["HIGH"], "SEC_001",
             "SEC_003", 0, SampleTripMinutes, <<>>, DefaultMaxSpeed,
             <<"SEC_001", "SEC_003">>)>>}

\* The disruptions the threads pass: none, a delay, another kind.
RaceDisruptionLists ==
    {<<>>,
     <<[type |-> "delay", train_id |-> "T1",
        delay_minutes |-> <<TestDelayMinutes>>]>>,
     <<[type |-> "breakdown", train_id |-> "T1",
        delay_minutes |-> <<TestDelayMinutes>>]>>}

\* A thread enters update_schedule.  Its locals: new_schedule and impact
\* (<<>> while unassigned); found is what self.current_schedule held when
\* the thread assigned it, kept for the properties.
BeginUpdate(c, optimizer, disruptions) ==
    /\ callers[c] = Idle
    /\ callers' = [callers EXCEPT ![c] =
                      [pc |-> "apply", op |-> "update_schedule",
                       optimizer |-> optimizer, disruptions |-> disruptions,
                       new_schedule |-> <<>>, impact |-> <<>>,
                       found |-> <<>>]]
    /\ UNCHANGED <<irctc_vars, sections, trains, call, ret, before, just_released,
                   current_schedule>>

\* Thread c goes on to statement next with its locals changed.
UpdateStep(c, locals, next) ==
    callers' = [callers EXCEPT ![c] = [locals EXCEPT !.pc = next]]

\* if disruptions: trains = self._apply_disruptions(trains, disruptions)
\* Bound: the departures stay within MaxDepartureMinutes.
UpdateApply(c) ==
    /\ At(c, "update_schedule", "apply")
    /\ LET disrupted == apply_disruptions(trains, callers[c].disruptions) IN
       /\ \A k \in 1..Len(disrupted) :
              disrupted[k].scheduled_departure <= MaxDepartureMinutes
       /\ trains' = disrupted
    /\ UpdateStep(c, callers[c], "optimize")
    /\ UNCHANGED <<irctc_vars, sections, call, ret, before, just_released,
                   current_schedule>>

\* new_schedule = self.scheduler.optimize_schedule(trains): the exception
\* ends the call.
UpdateOptimize(c) ==
    /\ At(c, "update_schedule", "optimize")
    /\ \E outcome \in scheduler_optimize_schedule(
                          SchedulerOf[callers[c].optimizer], sections, trains) :
           \/ /\ outcome.exc # None
              /\ callers' = [callers EXCEPT ![c] = Idle]
              /\ call' = [op |-> "update_schedule",
                          optimizer |-> callers[c].optimizer,
                          disruptions |-> callers[c].disruptions,
                          found |-> <<>>]
              /\ ret' = outcome
              /\ UNCHANGED <<irctc_vars, sections, trains, before, just_released,
                             current_schedule>>
           \/ /\ outcome.exc = None
              /\ UpdateStep(c, [callers[c] EXCEPT
                                   !.new_schedule = <<outcome.value>>],
                            "impact")
              /\ UNCHANGED <<irctc_vars, sections, trains, call, ret, before,
                             just_released, current_schedule>>

\* impact = self._calculate_schedule_impact(self.current_schedule, new_schedule)
UpdateImpact(c) ==
    /\ At(c, "update_schedule", "impact")
    /\ UpdateStep(c, [callers[c] EXCEPT
                         !.impact = <<calculate_schedule_impact(
                                        current_schedule[callers[c].optimizer],
                                        callers[c].new_schedule[1])>>],
                  "store")
    /\ UNCHANGED <<irctc_vars, sections, trains, call, ret, before, just_released,
                   current_schedule>>

\* self.current_schedule = new_schedule
UpdateStore(c) ==
    /\ At(c, "update_schedule", "store")
    /\ current_schedule' =
           [current_schedule EXCEPT
                ![callers[c].optimizer] = callers[c].new_schedule]
    /\ UpdateStep(c, [callers[c] EXCEPT
                         !.found = <<current_schedule[callers[c].optimizer]>>],
                  "return")
    /\ UNCHANGED <<irctc_vars, sections, trains, call, ret, before, just_released>>

\* self.last_update = datetime.now(); return {...}
UpdateReturn(c) ==
    /\ At(c, "update_schedule", "return")
    /\ callers' = [callers EXCEPT ![c] = Idle]
    /\ call' = [op |-> "update_schedule", optimizer |-> callers[c].optimizer,
                disruptions |-> callers[c].disruptions,
                found |-> callers[c].found]
    /\ ret' = Return([schedule |-> callers[c].new_schedule[1],
                      impact   |-> callers[c].impact[1]])
    /\ UNCHANGED <<irctc_vars, sections, trains, before, just_released, current_schedule>>

RaceInit ==
    /\ IrctcInit
    /\ sections = SampleSections
    /\ trains \in RaceTrainLists
    /\ call = NoCall
    /\ ret = None
    /\ before = sections
    /\ just_released = <<>>
    /\ callers = [c \in Callers |-> Idle]
    /\ current_schedule = NoSchedule

RaceNext ==
    \E c \in Callers :
        \/ \E optimizer \in Optimizers, disruptions \in RaceDisruptionLists :
               BeginUpdate(c, optimizer, disruptions)
        \/ UpdateApply(c)
        \/ UpdateOptimize(c)
        \/ UpdateImpact(c)
        \/ UpdateStore(c)
        \/ UpdateReturn(c)

RaceSpec == RaceInit /\ [][RaceNext]_vars

(***************************************************************************)
(* api/irctc_service.py.  CacheSpec: get_train_schedule and clear_cache    *)
(* called on the service while the clock advances.  A request is taken as  *)
(* one step.                                                               *)
(***************************************************************************)
\* self.cache_duration = timedelta(minutes=5)
CacheMinutes == 5

\* Bound: the clock is followed up to this minute.
MaxClock == 7

\* The train numbers asked for.
TrainNumbers == {"12936", "00000"}

\* What a request to the remote API can end in: status 200 with a schedule,
\* status 200 with a false 'status' entry, status 200 with data that
\* _process_train_data cannot read, another status code, a timeout, any
\* other exception.
Responses ==
    {"schedule", "not_found", "malformed", "http_error", "timeout", "failure"}

\* _is_cache_valid
is_cache_valid(expiry, minute, train_no) ==
    /\ train_no \in DOMAIN expiry
    /\ minute < expiry[train_no]

\* _get_error_response; of the dict, the entries that tell responses apart.
get_error_response(error_message, minute) ==
    [success      |-> FALSE,
     error        |-> error_message,
     train_number |-> None,
     last_updated |-> minute]

\* _process_train_data on the body of a status 200 answer.
process_train_data(response, train_no, minute) ==
    CASE response = "not_found" ->
             get_error_response("Train not found or invalid train number",
                                minute)
      [] response = "malformed" ->
             get_error_response("Data processing error", minute)
      [] OTHER ->
             [success      |-> TRUE,
              error        |-> None,
              train_number |-> train_no,
              last_updated |-> minute]

\* d[key] = value
DictSet(d, key, value) ==
    [k \in DOMAIN d \cup {key} |-> IF k = key THEN value ELSE d[k]]

\* get_train_schedule(train_no), the remote API answering with response
\* when it is asked.
get_train_schedule(train_no, response) ==
    /\ IF is_cache_valid(cache_expiry, now, train_no)
       THEN /\ ret' = IF train_no \in DOMAIN cache THEN cache[train_no]
                      ELSE get_error_response("KeyError", now)
            /\ call' = [op |-> "get_train_schedule", train_no |-> train_no,
                        response |-> "cached"]
            /\ UNCHANGED <<cache, cache_expiry>>
       ELSE /\ call' = [op |-> "get_train_schedule", train_no |-> train_no,
                        response |-> response]
            /\ IF response \in {"schedule", "not_found", "malformed"}
               THEN LET processed_data ==
                            process_train_data(response, train_no, now)
                    IN /\ cache' = DictSet(cache, train_no, processed_data)
                       /\ cache_expiry' = DictSet(cache_expiry, train_no,
                                                  now + CacheMinutes)
                       /\ ret' = processed_data
               ELSE /\ ret' = get_error_response(response, now)
                    /\ UNCHANGED <<cache, cache_expiry>>
    /\ UNCHANGED <<sections, trains, before, just_released, callers,
                   current_schedule, now>>

\* clear_cache
clear_cache ==
    /\ cache' = EmptyDict
    /\ cache_expiry' = EmptyDict
    /\ call' = [op |-> "clear_cache"]
    /\ ret' = None
    /\ UNCHANGED <<sections, trains, before, just_released, callers,
                   current_schedule, now>>

\* A minute passes.
Tick ==
    /\ now < MaxClock
    /\ now' = now + 1
    /\ UNCHANGED <<sections, trains, call, ret, before, just_released,
                   callers, current_schedule, cache, cache_expiry>>

CacheInit ==
    /\ IrctcInit
    /\ sections = SampleSections
    /\ trains = <<>>
    /\ call = NoCall
    /\ ret = None
    /\ before = sections
    /\ just_released = <<>>
    /\ callers = NoCallers
    /\ current_schedule = NoSchedule

CacheNext ==
    \/ \E train_no \in TrainNumbers, response \in Responses :
           get_train_schedule(train_no, response)
    \/ clear_cache
    \/ Tick

CacheSpec == CacheInit /\ [][CacheNext]_vars

(***************************************************************************)
(* TripSpec: the network operations, and the reserve / occupy / release    *)
(* sequence of test_system.py (Test 9), on a network in any state the      *)
(* operations can bring it to.                                             *)
(***************************************************************************)
\* if network.reserve_section(s, t):
\*     if network.occupy_section(s, t):
\*         if network.release_section(s, t): ...
\* The flags are what the calls made returned, in order.
reserve_occupy_release(secs, section_id, train_id) ==
    LET reserved == reserve_result(secs, section_id, train_id) IN
    IF ~reserved.ok THEN [secs |-> reserved.secs, flags |-> <<FALSE>>]
    ELSE LET occupied == occupy_result(reserved.secs, section_id, train_id) IN
         IF ~occupied.ok
         THEN [secs |-> occupied.secs, flags |-> <<TRUE, FALSE>>]
         ELSE LET released == release_result(occupied.secs, section_id,
                                             train_id)
              IN [secs |-> released.secs,
                  flags |-> <<TRUE, TRUE, released.ok>>]

TestNetworkOperations(section_id, train_id) ==
    LET res == reserve_occupy_release(sections, section_id, train_id) IN
    /\ call' = [op |-> "reserve_occupy_release", section_id |-> section_id,
                train_id |-> train_id]
    /\ before' = sections
    /\ sections' = res.secs
    /\ ret' = res.flags
    /\ just_released' = <<>>
    /\ UNCHANGED <<irctc_vars, trains, callers, current_schedule>>

TripNext ==
    \/ Next
    \/ \E section_id \in SectionIds \cup {UnknownSection},
          train_id \in TrainIds :
           TestNetworkOperations(section_id, train_id)

TripSpec == Init /\ [][TripNext]_vars

(***************************************************************************)
(* SampleSpec: the occupancy operations on the network as                  *)
(* create_sample_network returns it: every section AVAILABLE, empty and    *)
(* unreserved.                                                             *)
(***************************************************************************)
SampleInit ==
    /\ IrctcInit
    /\ sections = SampleSections
    /\ trains = <<>>
    /\ call = NoCall
    /\ ret = None
    /\ before = sections
    /\ just_released = <<>>
    /\ callers = NoCallers
    /\ current_schedule = NoSchedule

SampleSpec == SampleInit /\ [][Next]_vars

(***************************************************************************)
(* FrameSpec: the scheduling entry points called on a network that is in   *)
(* use.  test_system.py builds one network, hands it to the schedulers and *)
(* reserves, occupies and releases its sections; here the two kinds of     *)
(* call come in any order.                                                 *)
(***************************************************************************)
\* The trains the schedulers are given: none, or two that pass SEC_003.
FrameTrainLists ==
    {<<>>,
     <<Train("T1", TrainType["EXPRESS"], TrainPriority["HIGH"], "SEC_001",
             "SEC_003", 0, SampleTripMinutes, <<>>, DefaultMaxSpeed,
             <<"SEC_001", "SEC_003">>),
       Train("T2", TrainType["EXPRESS"], TrainPriority["LOW"], "SEC_001",
             "SEC_003", 0, SampleTripMinutes, <<>>, DefaultMaxSpeed,
             <<"SEC_003">>)>>}

FrameInit ==
    /\ IrctcInit
    /\ sections = SampleSections
    /\ trains \in FrameTrainLists
    /\ call = NoCall
    /\ ret = None
    /\ before = sections
    /\ just_released = <<>>
    /\ callers = NoCallers
    /\ current_schedule = NoSchedule

FrameNext ==
    \/ \E section_id \in ContendedSections, train_id \in TrainIds :
           \/ reserve_section(section_id, train_id)
           \/ occupy_section(section_id, train_id)
           \/ release_section(section_id, train_id)
    \/ CallSimpleOptimize
    \/ \E h \in 0..MaxHorizonHours : CallCPOptimize(h)
    \/ CallDetectConflicts
    \/ \E scheduler \in Schedulers : CallResolveConflicts(scheduler)
    \/ \E optimizer \in Optimizers, disruptions \in DisruptionLists :
           update_schedule(optimizer, disruptions)

FrameSpec == FrameInit /\ [][FrameNext]_vars

(***************************************************************************)
(* Properties of the section occupancy operations (specification Spec).    *)
(***************************************************************************)
NetworkOps == {"reserve_section", "occupy_section", "release_section"}

\* C7: after any sequence of reserve_section, occupy_section and
\* release_section calls on a network whose sections start without
\* occupants, no section holds more occupants than its max_trains.
C7_OccupantsWithinCapacity ==
    \A s \in SectionIds :
        Len(sections[s].occupying_trains) <= sections[s].max_trains

\* An occupy_section call met a section filled to its capacity and was
\* refused.
C7_Witness ==
    /\ call.op = "occupy_section"
    /\ call.section_id \in SectionIds
    /\ Len(before[call.section_id].occupying_trains)
           = before[call.section_id].max_trains
    /\ ret = FALSE

\* C8: occupy_section(s, t) returns true only if s had fewer occupants than
\* max_trains before the call; when it returns true, t has been appended to
\* the occupants, the status is OCCUPIED and reserved_for is None.
C8_OccupySucceedsOnlyBelowCapacity ==
    (call.op = "occupy_section" /\ ret = TRUE) =>
        /\ call.section_id \in SectionIds
        /\ Len(before[call.section_id].occupying_trains)
               < before[call.section_id].max_trains
        /\ sections[call.section_id].occupying_trains
               = Append(before[call.section_id].occupying_trains, call.train_id)
        /\ sections[call.section_id].current_status = "occupied"
        /\ sections[call.section_id].reserved_for = None

\* occupy_section succeeded on a section that was reserved.
C8_Witness ==
    /\ call.op = "occupy_section"
    /\ ret = TRUE
    /\ before[call.section_id].reserved_for # None

\* C9: reserve_section(s, t) returns true only if s had no reservation
\* holder and no occupants before the call; when it returns true,
\* reserved_for = t and the status is RESERVED; reserve_section on a section
\* that is already reserved, for the same or another train, returns false.
C9_ReserveOnlyUnreservedUnoccupied ==
    call.op = "reserve_section" =>
        /\ ret = TRUE =>
              /\ call.section_id \in SectionIds
              /\ before[call.section_id].reserved_for = None
              /\ before[call.section_id].occupying_trains = <<>>
              /\ sections[call.section_id].reserved_for = call.train_id
              /\ sections[call.section_id].current_status = "reserved"
        /\ (/\ call.section_id \in SectionIds
            /\ before[call.section_id].reserved_for # None) => ret = FALSE

\* A second reserve_section on a section reserved by an earlier call was
\* refused.
C9_Witness ==
    /\ call.op = "reserve_section"
    /\ call.section_id \in SectionIds
    /\ before[call.section_id].reserved_for # None
    /\ ret = FALSE

\* C10: whenever reserve_section, occupy_section or release_section returns
\* false, the status, occupants and reservation holder of every section are
\* as before the call; the call returns a flag and raises nothing.
C10_FailureLeavesNetworkUnchanged ==
    call.op \in NetworkOps =>
        /\ ret \in BOOLEAN
        /\ ret = FALSE => sections = before

\* A release_section call for a train that is not among the occupants of a
\* reserved section was refused.
C10_Witness ==
    /\ call.op = "release_section"
    /\ call.section_id \in SectionIds
    /\ before[call.section_id].current_status = "reserved"
    /\ ret = FALSE

\* C11: when release_section(s, t) has returned true and t is no longer among
\* the occupants of s, the next call, if it is release_section(s, t) again,
\* returns false and leaves the status, the occupants and the reservation
\* holder of s as they were.
C11_SecondReleaseRefused ==
    (/\ call.op = "release_section"
     /\ just_released = <<call.section_id, call.train_id>>
     /\ ~InList(before[call.section_id].occupying_trains, call.train_id)) =>
        /\ ret = FALSE
        /\ sections[call.section_id] = before[call.section_id]

\* release_section(s, t) was called right after a release_section(s, t) that
\* had succeeded, and was refused.
C11_Witness ==
    /\ call.op = "release_section"
    /\ just_released = <<call.section_id, call.train_id>>
    /\ ret = FALSE

(***************************************************************************)
(* Properties of the operations under concurrent callers (ConcSpec).       *)
(***************************************************************************)
\* C12: when several threads call reserve_section, occupy_section and
\* release_section on the same network, with the test and the writes of one
\* call interleaved with the steps of another, no state is reached in which
\* a section holds more occupants than its max_trains.
C12_NoInterleavingOverbooks ==
    \A s \in DOMAIN sections :
        Len(sections[s].occupying_trains) <= sections[s].max_trains

(***************************************************************************)
(* Properties of the scheduling entry points (specification SchedSpec).    *)
(***************************************************************************)
\* The train of the list a schedule entry belongs to.
TrainOf(entry) == trains[CHOOSE k \in 1..Len(trains) :
                             trains[k].train_id = entry.train_id]

\* The segments of a schedule on one section, as (entry, position) pairs.
SegmentsOn(schedule, section_id) ==
    UNION {{<<k, i>> : i \in {i \in 1..Len(schedule.trains[k].sections) :
                                 schedule.trains[k].sections[i].section_id
                                     = section_id}} :
           k \in 1..Len(schedule.trains)}

SegmentAt(schedule, v) == schedule.trains[v[1]].sections[v[2]]

\* The segments of the section that hold minute t (start <= t < end).
Overlapping(schedule, section_id, t) ==
    {v \in SegmentsOn(schedule, section_id) :
        /\ SegmentAt(schedule, v).start_time <= t
        /\ t < SegmentAt(schedule, v).end_time}

\* Two trains of the list whose routes share a section of capacity 1.
ShareExclusiveSection(k1, k2) ==
    /\ k1 # k2
    /\ \E s \in SectionIds :
           /\ sections[s].max_trains = 1
           /\ InList(get_train_route(trains[k1]), s)
           /\ InList(get_train_route(trains[k2]), s)

\* C1: optimize_schedule (of either scheduler) returns, for any list of
\* trains and in particular for trains that share a capacity-1 section, a
\* schedule in which no section holds more than max_trains overlapping
\* segments at any minute.  (The greatest overlap is reached at the start of
\* some segment, so the starts are the minutes looked at.)
C1_CapacityRespected ==
    (/\ call.op = "optimize_schedule"
     /\ \E k1, k2 \in 1..Len(trains) : ShareExclusiveSection(k1, k2)) =>
        /\ ret.exc = None
        /\ \A s \in SectionIds :
               \A v \in SegmentsOn(ret.value, s) :
                   Cardinality(Overlapping(ret.value, s,
                                           SegmentAt(ret.value, v).start_time))
                       <= sections[s].max_trains

\* C2: optimize_schedule returns, for trains with routes of two sections or
\* more, a schedule in which the segment at route position i+1 of a train
\* starts no earlier than its segment at position i ends.
C2_ConsecutiveSegmentsOrdered ==
    (/\ call.op = "optimize_schedule"
     /\ \E k \in 1..Len(trains) : Len(get_train_route(trains[k])) >= 2) =>
        /\ ret.exc = None
        /\ \A k \in 1..Len(ret.value.trains) :
               \A i \in 1..(Len(ret.value.trains[k].sections) - 1) :
                   ret.value.trains[k].sections[i + 1].start_time
                       >= ret.value.trains[k].sections[i].end_time

\* C3: optimize_schedule returns, for trains that have a route, a schedule
\* whose every segment lasts at least the estimated travel time of its
\* train on its section, and reports end_time - start_time as its duration.
C3_SegmentsLastTheEstimate ==
    (/\ call.op = "optimize_schedule"
     /\ \E k \in 1..Len(trains) : get_train_route(trains[k]) # <<>>) =>
        /\ ret.exc = None
        /\ \A k \in 1..Len(ret.value.trains) :
               \A i \in 1..Len(ret.value.trains[k].sections) :
                   LET seg == ret.value.trains[k].sections[i] IN
                   /\ seg.end_time >= seg.start_time
                          + estimate_section_travel_time(
                                sections, TrainOf(ret.value.trains[k]),
                                seg.section_id)
                   /\ seg.duration = seg.end_time - seg.start_time

\* C4: calculate_priority_score, optimize_schedule and resolve_conflicts (on
\* conflicts that name two trains of the list) return a value for every list
\* of trains; none ends with an exception.
C4_EntryPointsReturn ==
    (\/ call.op \in {"calculate_priority_score", "optimize_schedule"}
     \/ /\ call.op = "resolve_conflicts"
        /\ detect_conflicts(sections, trains) # <<>>) =>
        ret.exc = None

\* C5: when a HIGH and a LOW priority train of the same kind, with the same
\* scheduled departure, both run through a capacity-1 section,
\* optimize_schedule returns a schedule in which every segment of the HIGH
\* train on that section starts no later than every segment of the LOW train
\* on it.
C5_HigherPriorityStartsFirst ==
    \A hi, lo \in 1..Len(trains) :
        (/\ call.op = "optimize_schedule"
         /\ ShareExclusiveSection(hi, lo)
         /\ trains[hi].train_type = trains[lo].train_type
         /\ trains[hi].priority > trains[lo].priority
         /\ trains[hi].scheduled_departure = trains[lo].scheduled_departure) =>
            /\ ret.exc = None
            /\ \A s \in SectionIds :
                   sections[s].max_trains = 1 =>
                       \A vh, vl \in SegmentsOn(ret.value, s) :
                           (/\ ret.value.trains[vh[1]].train_id = trains[hi].train_id
                            /\ ret.value.trains[vl[1]].train_id = trains[lo].train_id) =>
                               SegmentAt(ret.value, vh).start_time
                                   <= SegmentAt(ret.value, vl).start_time

\* The trains of the list whose route contains the section, and the
\* conflicts of a list that are about the section.
TrainsUsing(section_id) ==
    {k \in 1..Len(trains) : InList(get_train_route(trains[k]), section_id)}

ConflictsOn(conflicts, section_id) ==
    {i \in 1..Len(conflicts) : conflicts[i].section_id = section_id}

\* C13: detect_conflicts returns, for each known section that more distinct
\* trains use than its max_trains, exactly one conflict per unordered pair of
\* distinct trains using it, and no conflict for any other known section; no
\* conflict pairs a train with itself, also when a route lists a section
\* more than once.
C13_OneConflictPerPair ==
    call.op = "detect_conflicts" =>
        \A s \in SectionIds :
            LET users == TrainsUsing(s)
                found == ConflictsOn(ret.value, s)
            IN IF Cardinality(users) > sections[s].max_trains
               THEN /\ \A k1, k2 \in users :
                           k1 < k2 =>
                               Cardinality(
                                   {i \in found :
                                       {ret.value[i].train_ids[1],
                                        ret.value[i].train_ids[2]}
                                           = {trains[k1].train_id,
                                              trains[k2].train_id}}) = 1
                    /\ \A i \in found :
                           ret.value[i].train_ids[1] # ret.value[i].train_ids[2]
               ELSE found = {}

\* C14: optimize_schedule (of either scheduler), given a list in which some
\* train resolves to an empty route, returns a schedule that has no entry
\* for that train and does not count it in metrics.scheduled_trains, and
\* that has an entry for every train with a route.
C14_EmptyRouteTrainExcluded ==
    (/\ call.op = "optimize_schedule"
     /\ \E k \in 1..Len(trains) : get_train_route(trains[k]) = <<>>) =>
        /\ ret.exc = None
        /\ \A k \in 1..Len(trains) :
               (get_train_route(trains[k]) # <<>>)
                   <=> \E e \in 1..Len(ret.value.trains) :
                           ret.value.trains[e].train_id = trains[k].train_id
        /\ ret.value.metrics.scheduled_trains
               = Cardinality({k \in 1..Len(trains) :
                                 get_train_route(trains[k]) # <<>>})

(***************************************************************************)
(* Properties of the helpers (specification HelperSpec).                   *)
(***************************************************************************)
\* destination is listed as adjacent to origin in the network.
Adjacent(origin, destination) ==
    /\ origin \in DOMAIN AdjacencyMatrix
    /\ InList(AdjacencyMatrix[origin], destination)

\* C15, as stated: _get_train_route returns a non-empty explicit route
\* unchanged; for a train without one it returns [origin, destination] when
\* destination is adjacent to origin, and the empty sequence whenever no
\* adjacency from origin to destination is recorded.
C15_RouteResolution ==
    call.op = "_get_train_route" =>
        LET train == trains[call.train] IN
        ret.value =
            IF train.route_sections # <<>> THEN train.route_sections
            ELSE IF Adjacent(train.origin_station, train.destination_station)
                 THEN <<train.origin_station, train.destination_station>>
                 ELSE <<>>

\* C15, amended: as above, but a train without an explicit route whose
\* origin and destination are the same gets the one-element route [origin];
\* the empty sequence is returned when origin and destination differ and no
\* adjacency from origin to destination is recorded.
C15_RouteResolutionAmended ==
    call.op = "_get_train_route" =>
        LET train == trains[call.train] IN
        ret.value =
            IF train.route_sections # <<>> THEN train.route_sections
            ELSE IF train.origin_station = train.destination_station
                 THEN <<train.origin_station>>
            ELSE IF Adjacent(train.origin_station, train.destination_station)
                 THEN <<train.origin_station, train.destination_station>>
                 ELSE <<>>

\* _get_train_route was called for a train without an explicit route that
\* starts and ends at the same section, which is not adjacent to itself,
\* and returned that one section.
C15_Witness ==
    /\ call.op = "_get_train_route"
    /\ trains[call.train].route_sections = <<>>
    /\ trains[call.train].origin_station = trains[call.train].destination_station
    /\ ~Adjacent(trains[call.train].origin_station,
                 trains[call.train].destination_station)
    /\ ret.value = <<trains[call.train].origin_station>>

\* C16: calculate_priority_score returns, for a train of every kind,
\* priority * multiplier + penalty, the multiplier being 1.5 for express,
\* 1.0 for local, 0.8 for freight, 0.5 for maintenance and 1.0 for special,
\* and the penalty 0 when there is no actual departure or it is not later
\* than the scheduled one, else the delay in hours, at most 2.  (Scores are
\* in sixtieths: an hour of delay is 60.)
C16_PriorityScoreFormula ==
    call.op = "calculate_priority_score" =>
        LET train == trains[call.train]
            multiplier60 ==
                CASE train.train_type = "express" -> 90
                  [] train.train_type = "local" -> 60
                  [] train.train_type = "freight" -> 48
                  [] train.train_type = "maintenance" -> 30
                  [] train.train_type = "special" -> 60
            late == /\ train.actual_departure # <<>>
                    /\ train.actual_departure[1] > train.scheduled_departure
            penalty60 ==
                IF late
                THEN Min(train.actual_departure[1] - train.scheduled_departure,
                         120)
                ELSE 0
        IN /\ ret.exc = None
           /\ ret.value = train.priority * multiplier60 + penalty60

\* C17: _estimate_section_travel_time returns an integer of at least 1: for
\* a section of the network and a positive speed,
\* max(floor(60 * length_km / min(train.max_speed, section.max_speed_limit))
\* + buffer, 1) with the buffer 5 for a platform, 3 for a junction, 2 for a
\* single line, 1 for a double line and 2 for any other type; for a section
\* id the network does not have, 10.
C17_TravelTimeFormula ==
    call.op = "_estimate_section_travel_time" =>
        LET train == trains[call.train]
            known == call.section_id \in DOMAIN sections
            speed == Min(train.max_speed,
                         sections[call.section_id].max_speed_limit)
            buffer ==
                CASE sections[call.section_id].section_type = "platform" -> 5
                  [] sections[call.section_id].section_type = "junction" -> 3
                  [] sections[call.section_id].section_type = "single_line" -> 2
                  [] sections[call.section_id].section_type = "double_line" -> 1
                  [] OTHER -> 2
        IN /\ ret.value >= 1
           /\ ~known => ret.value = 10
           /\ (known /\ speed > 0) =>
                  ret.value =
                      Max(WholeMinutes(sections[call.section_id].length_km10,
                                       speed) + buffer, 1)

(***************************************************************************)
(* Further properties of the scheduling entry points (SchedSpec).          *)
(***************************************************************************)
\* The planning horizon of an optimize_schedule call, in minutes.
HorizonMinutes ==
    MinutesPerHour * (IF call.scheduler = "TrainScheduler"
                      THEN call.time_horizon_hours ELSE DefaultHorizonHours)

\* C18: optimize_schedule(trains, time_horizon_hours), for trains that have
\* a route, returns a schedule whose every segment lies within the horizon
\* (0 <= start_time <= end_time <= time_horizon_hours * 60); when the travel
\* times of some train's route add up to more than the horizon, it returns
\* status 'infeasible' with an empty train list.
C18_SegmentsWithinHorizon ==
    (/\ call.op = "optimize_schedule"
     /\ \E k \in 1..Len(trains) : get_train_route(trains[k]) # <<>>) =>
        /\ ret.exc = None
        /\ \A e \in 1..Len(ret.value.trains) :
               \A i \in 1..Len(ret.value.trains[e].sections) :
                   LET seg == ret.value.trains[e].sections[i] IN
                   /\ 0 <= seg.start_time
                   /\ seg.start_time <= seg.end_time
                   /\ seg.end_time <= HorizonMinutes
        /\ (\E k \in 1..Len(trains) :
               LET route == get_train_route(trains[k]) IN
               TravelSum(sections, trains[k], route, Len(route))
                   > HorizonMinutes) =>
               /\ ret.value.status = "infeasible"
               /\ ret.value.trains = <<>>

(***************************************************************************)
(* Properties of the re-optimizers (specification UpdateSpec).             *)
(***************************************************************************)
\* C19: after every update_schedule call the current_schedule of the
\* re-optimizer is the schedule that call returned, whatever its average
\* delay, and the impact the call reports is the one computed against the
\* schedule retained from the call before.
C19_RetainedIsReturned ==
    call.op = "update_schedule" =>
        /\ ret.exc = None
        /\ current_schedule[call.optimizer] = <<ret.value.schedule>>
        /\ ret.value.impact
               = calculate_schedule_impact(call.retained, ret.value.schedule)

\* The segments a train has in a retained schedule (<<>> for None, else
\* <<schedule>>): none when the schedule has no entry for it.
SegmentsIn(retained, train_id) ==
    IF retained = <<>> THEN <<>>
    ELSE LET entries == {e \in 1..Len(retained[1].trains) :
                            retained[1].trains[e].train_id = train_id}
         IN IF entries = {} THEN <<>>
            ELSE retained[1].trains[CHOOSE e \in entries : TRUE].sections

\* C20: an update_schedule call that applies a delay disruption to a train
\* X of the list returns an impact whose affected_trains contain X whenever
\* the segments of X in the new schedule differ from those it had in the
\* schedule retained before the call (none, when it had no entry or nothing
\* was retained).
C20_DelayedTrainReportedAffected ==
    call.op = "update_schedule" =>
        \A d \in 1..Len(call.disruptions) :
            (/\ call.disruptions[d].type = "delay"
             /\ \E k \in 1..Len(trains) :
                    trains[k].train_id = call.disruptions[d].train_id) =>
                /\ ret.exc = None
                /\ SegmentsIn(<<ret.value.schedule>>,
                              call.disruptions[d].train_id)
                       # SegmentsIn(call.retained, call.disruptions[d].train_id)
                   => InList(ret.value.impact.affected_trains,
                             call.disruptions[d].train_id)

\* The trains whose segments in the schedule returned by an update_schedule
\* call differ from those they had in the schedule retained before it.
ChangedTrains ==
    {id \in TrainIds :
        SegmentsIn(<<ret.value.schedule>>, id) # SegmentsIn(call.retained, id)}

\* C21: the impact returned by update_schedule gives in 'changes' the number
\* of trains whose list of segments differs between the schedule retained
\* before the call and the new one, and in 'affected_trains' the ids of
\* exactly those trains.
C21_ImpactCountsChangedTrains ==
    call.op = "update_schedule" =>
        /\ ret.exc = None
        /\ ret.value.impact.changes = Cardinality(ChangedTrains)
        /\ {ret.value.impact.affected_trains[i] :
               i \in 1..Len(ret.value.impact.affected_trains)} = ChangedTrains

\* C22: update_schedule returns, for every list of trains and every list of
\* disruptions, a result holding a schedule and an impact; a disruption
\* that names a train id not in the list, or is of another type than
\* 'delay', changes no train and raises nothing.
C22_UpdateAlwaysReturns ==
    call.op = "update_schedule" =>
        /\ ret.exc = None
        /\ DOMAIN ret.value = {"schedule", "impact"}
        /\ (\A d \in 1..Len(call.disruptions) :
               \/ call.disruptions[d].type # "delay"
               \/ \A k \in 1..Len(call.given) :
                      call.given[k].train_id # call.disruptions[d].train_id)
               => trains = call.given

\* C23: an update_schedule call with one 'delay' disruption for a train X of
\* the list, of d minutes (d possibly negative, 0 when the disruption has no
\* delay_minutes), leaves the list with X's scheduled departure and arrival
\* each moved by d and every other field of X and every other train as
\* they were passed.
C23_DelayShiftsDepartureAndArrival ==
    (/\ call.op = "update_schedule"
     /\ Len(call.disruptions) = 1
     /\ call.disruptions[1].type = "delay") =>
        LET X == call.disruptions[1].train_id
            d == IF call.disruptions[1].delay_minutes = <<>> THEN 0
                 ELSE call.disruptions[1].delay_minutes[1]
        IN /\ Len(trains) = Len(call.given)
           /\ \A k \in 1..Len(trains) :
                  trains[k] =
                      IF call.given[k].train_id = X
                      THEN [call.given[k] EXCEPT
                                !.scheduled_departure = @ + d,
                                !.scheduled_arrival = @ + d]
                      ELSE call.given[k]

\* update_schedule was called with a negative delay for the first of two
\* trains, and that train's departure has moved.
C23_Witness ==
    /\ call.op = "update_schedule"
    /\ Len(call.disruptions) = 1
    /\ call.disruptions[1].type = "delay"
    /\ call.disruptions[1].delay_minutes = <<-TestDelayMinutes>>
    /\ Len(call.given) = 2
    /\ call.given[1].train_id = call.disruptions[1].train_id
    /\ trains[1].scheduled_departure
           = call.given[1].scheduled_departure - TestDelayMinutes

(***************************************************************************)
(* Further properties of the section occupancy operations                  *)
(***************************************************************************)
\* C32 (SampleSpec): in every state the three operations reach from a
\* network of AVAILABLE, empty, unreserved sections, a section is OCCUPIED
\* exactly when it has an occupant, RESERVED exactly when reserved_for is
\* set, AVAILABLE exactly when it has neither, and never has both an
\* occupant and a reservation holder.
C32_StatusMatchesOccupancy ==
    \A s \in SectionIds :
        LET section == sections[s]
            occupied == section.occupying_trains # <<>>
            reserved == section.reserved_for # None
        IN /\ section.current_status = "occupied" <=> occupied
           /\ section.current_status = "reserved" <=> reserved
           /\ section.current_status = "available" <=> ~occupied /\ ~reserved
           /\ ~(occupied /\ reserved)

\* A reserved section has just been occupied while another section is
\* reserved.
C32_Witness ==
    /\ call.op = "occupy_section"
    /\ ret = TRUE
    /\ before[call.section_id].current_status = "reserved"
    /\ sections[call.section_id].occupying_trains = <<call.train_id>>
    /\ \E s \in SectionIds : sections[s].reserved_for # None

\* C33 (Spec): while a section is reserved for train A, occupy_section for
\* another train B returns false and leaves the reservation in place.
C33_ReservationExclusive ==
    (/\ call.op = "occupy_section"
     /\ call.section_id \in SectionIds
     /\ before[call.section_id].reserved_for # None
     /\ before[call.section_id].reserved_for # call.train_id) =>
        /\ ret = FALSE
        /\ sections[call.section_id].reserved_for
               = before[call.section_id].reserved_for
        /\ sections[call.section_id].current_status = "reserved"

\* C34 (Spec): on a known section that is neither BLOCKED nor under
\* MAINTENANCE, occupy_section succeeds exactly when check_section_capacity
\* returned true just before the call; a section of capacity 2 with one
\* occupant accepts a second one.
C34_CapacityQueryAgreesWithOccupy ==
    (/\ call.op = "occupy_section"
     /\ call.section_id \in SectionIds
     /\ before[call.section_id].current_status \notin {"blocked", "maintenance"}) =>
        (ret = TRUE <=> check_section_capacity(before, call.section_id))

(***************************************************************************)
(* TripSpec                                                                *)
(***************************************************************************)
\* C27: on a known section that is AVAILABLE, unreserved and empty,
\* reserve_section(s, t), occupy_section(s, t) and release_section(s, t) in
\* this order each return true, and the section ends in the state it
\* started in.
C27_ReserveOccupyReleaseRoundTrip ==
    (/\ call.op = "reserve_occupy_release"
     /\ call.section_id \in SectionIds
     /\ before[call.section_id].current_status = "available"
     /\ before[call.section_id].reserved_for = None
     /\ before[call.section_id].occupying_trains = <<>>) =>
        /\ ret = <<TRUE, TRUE, TRUE>>
        /\ sections[call.section_id] = before[call.section_id]
        /\ sections = before

\* The three calls were made on a free section while a train occupied
\* another section, and all three returned true.
C27_Witness ==
    /\ call.op = "reserve_occupy_release"
    /\ call.section_id \in SectionIds
    /\ before[call.section_id].current_status = "available"
    /\ before[call.section_id].reserved_for = None
    /\ before[call.section_id].occupying_trains = <<>>
    /\ \E s \in SectionIds : before[s].occupying_trains # <<>>
    /\ ret = <<TRUE, TRUE, TRUE>>

(***************************************************************************)
(* Further properties of SchedSpec                                         *)
(***************************************************************************)
\* The segments of every train in the result of a call: train id and
\* sections of each entry.
SegmentsOf(outcome) ==
    [e \in 1..Len(outcome.value.trains) |->
        [train_id |-> outcome.value.trains[e].train_id,
         sections |-> outcome.value.trains[e].sections]]

\* C36 (UpdateSpec): the schedule SimpleRealTimeOptimizer.update_schedule
\* returns does not depend on the disruptions: for the list of trains it
\* was given, every list of delay disruptions, the empty one included,
\* yields the same segments for every train.
C36_ScheduleIndependentOfDisruptions ==
    (/\ call.op = "update_schedule"
     /\ call.optimizer = "SimpleRealTimeOptimizer"
     /\ call.given # <<>>) =>
        /\ ret.exc = None
        /\ \A disruptions \in DisruptionLists :
               LET other == simple_optimize_schedule(
                                sections,
                                apply_disruptions(call.given, disruptions))
               IN /\ other.exc = None
                  /\ SegmentsOf(other) = SegmentsOf(Return(ret.value.schedule))

\* C37 (SchedSpec): for a train whose route visits a section at more than
\* one position, optimize_schedule returns one segment per route position,
\* in route order, and each segment starts no earlier than the one before
\* it ends.
C37_RevisitedSectionSegments ==
    \A k \in 1..Len(trains) :
        LET route == get_train_route(trains[k]) IN
        (/\ call.op = "optimize_schedule"
         /\ \E i, j \in 1..Len(route) : i # j /\ route[i] = route[j]) =>
            /\ ret.exc = None
            /\ \E e \in 1..Len(ret.value.trains) :
                   LET segments == ret.value.trains[e].sections IN
                   /\ ret.value.trains[e].train_id = trains[k].train_id
                   /\ Len(segments) = Len(route)
                   /\ \A i \in 1..Len(route) :
                          /\ segments[i].section_id = route[i]
                          /\ segments[i].start_time <= segments[i].end_time
                          /\ i > 1 => segments[i].start_time
                                          >= segments[i - 1].end_time

\* C38 (SchedSpec): resolve_conflicts returns one resolution for each
\* conflict that names at least two trains of the list and none for the
\* others, in the order of the conflicts, each with the conflict_id of its
\* conflict.
C38_OneResolutionPerConflict ==
    call.op = "resolve_conflicts" =>
        LET conflicts == detect_conflicts(sections, trains)
            resolvable == SelectSeq(conflicts,
                              LAMBDA c : Len(ConflictingTrains(c, trains)) >= 2)
        IN /\ ret.exc = None
           /\ Len(ret.value) = Len(resolvable)
           /\ \A i \in 1..Len(resolvable) :
                  ret.value[i].conflict_id = resolvable[i].conflict_id

(***************************************************************************)
(* RaceSpec                                                                *)
(***************************************************************************)
\* C31: concurrent update_schedule calls on one re-optimizer are serialized:
\* in every interleaving, the impact a call returns is the one computed
\* against the schedule that was retained just before the call stored its
\* own, and once every call has returned the retained schedule is the one
\* the last call to return has returned.
C31_UpdatesSerialized ==
    (/\ call.op = "update_schedule"
     /\ ret.exc = None) =>
        /\ ret.value.impact
               = calculate_schedule_impact(call.found[1], ret.value.schedule)
        /\ (\A c \in Callers : callers[c] = Idle) =>
               current_schedule[call.optimizer] = <<ret.value.schedule>>

(***************************************************************************)
(* CacheSpec                                                               *)
(***************************************************************************)
\* C39: the schedule cache never holds an error response: after any
\* sequence of get_train_schedule and clear_cache calls every cached entry
\* has success = true, a lookup that failed is not answered from the cache
\* on the next request, and the cache and its expiry map have the same
\* keys.
C39_CacheHoldsNoError ==
    /\ \A train_no \in DOMAIN cache : cache[train_no].success = TRUE
    /\ DOMAIN cache = DOMAIN cache_expiry
    /\ (/\ call.op = "get_train_schedule"
        /\ ret.success = FALSE) =>
           ~is_cache_valid(cache_expiry, now, call.train_no)

(***************************************************************************)
(* RepeatSpec                                                              *)
(***************************************************************************)
\* C35: delay disruptions are applied to the caller's train records and add
\* up: after n update_schedule calls in a row on the same list, each with a
\* delay of d minutes for train X, the scheduled departure and arrival of X
\* are n * d minutes from where they were, and nothing else has changed.
C35_DelaysAccumulate ==
    (/\ call.op = "update_schedule_repeated"
     /\ Len(call.disruptions) = 1
     /\ call.disruptions[1].type = "delay") =>
        LET X == call.disruptions[1].train_id
            d == IF call.disruptions[1].delay_minutes = <<>> THEN 0
                 ELSE call.disruptions[1].delay_minutes[1]
        IN /\ Len(trains) = Len(call.given)
           /\ \A k \in 1..Len(trains) :
                  trains[k] =
                      IF call.given[k].train_id = X
                      THEN [call.given[k] EXCEPT
                                !.scheduled_departure = @ + call.times * d,
                                !.scheduled_arrival = @ + call.times * d]
                      ELSE call.given[k]

\* Three calls in a row delayed the second of two trains by 15 minutes each.
C35_Witness ==
    /\ call.op = "update_schedule_repeated"
    /\ call.times = MaxCalls
    /\ Len(call.given) = 2
    /\ call.disruptions
           = <<[type |-> "delay", train_id |-> call.given[2].train_id,
                delay_minutes |-> <<TestDelayMinutes>>]>>
    /\ trains[2].scheduled_departure
           = call.given[2].scheduled_departure + MaxCalls * TestDelayMinutes
    /\ trains[2].scheduled_arrival
           = call.given[2].scheduled_arrival + MaxCalls * TestDelayMinutes

\* The train of the caller's list with an id.
TrainById(train_id) ==
    trains[CHOOSE k \in 1..Len(trains) : trains[k].train_id = train_id]

\* C25: every resolution resolve_conflicts returns delays the lower-priority
\* train: affected_train and priority_train are two different trains named
\* by the resolution's conflict, the priority score of the affected train is
\* at most that of the priority train, and the estimated delay is 15 minutes
\* (TrainScheduler) or between 10 and 30 minutes (SimpleTrainScheduler).
C25_ResolutionDelaysLowerPriority ==
    call.op = "resolve_conflicts" =>
        /\ ret.exc = None
        /\ \A i \in 1..Len(ret.value) :
               LET r == ret.value[i]
                   conflicts == detect_conflicts(sections, trains)
                   affected == calculate_priority_score(TrainById(r.affected_train))
                   priority == calculate_priority_score(TrainById(r.priority_train))
               IN /\ r.affected_train # r.priority_train
                  /\ \E c \in 1..Len(conflicts) :
                         /\ conflicts[c].conflict_id = r.conflict_id
                         /\ \E a, b \in 1..Len(conflicts[c].train_ids) :
                                /\ conflicts[c].train_ids[a] = r.affected_train
                                /\ conflicts[c].train_ids[b] = r.priority_train
                  /\ affected.exc = None
                  /\ priority.exc = None
                  /\ affected.value <= priority.value
                  /\ IF call.scheduler = "TrainScheduler"
                     THEN r.estimated_delay = FixedDelayMinutes
                     ELSE /\ r.estimated_delay >= RandintLow
                          /\ r.estimated_delay <= RandintHigh

\* C26: resolve_conflicts is deterministic: with the same conflicts and the
\* same trains it returns the same resolutions, estimated_delay included, in
\* every call.
C26_ResolutionsDeterministic ==
    (/\ call.op = "resolve_conflicts"
     /\ detect_conflicts(sections, trains) # <<>>) =>
        /\ ret.exc = None
        /\ Cardinality(resolve_conflicts(call.scheduler,
                           detect_conflicts(sections, trains), trains)) = 1

\* C30: detect_conflicts skips the sections the network does not have: no
\* conflict it returns names a section id absent from the network, however
\* many trains list that section, and the call raises nothing.
C30_UnknownSectionsSkipped ==
    call.op = "detect_conflicts" =>
        /\ ret.exc = None
        /\ \A i \in 1..Len(ret.value) :
               ret.value[i].section_id \in DOMAIN sections

\* detect_conflicts was called with two trains that both list a section the
\* network does not have, and that also meet on a section it has.
C30_Witness ==
    /\ call.op = "detect_conflicts"
    /\ Len(trains) >= 2
    /\ \A k \in 1..2 : InList(get_train_route(trains[k]), UnknownSection)
    /\ ret.exc = None
    /\ ret.value # <<>>

\* C28: in every schedule optimize_schedule returns, the first segment of
\* each train starts no earlier than the train's scheduled departure, both
\* counted in minutes on the schedule's clock.
C28_FirstSegmentAfterDeparture ==
    (/\ call.op = "optimize_schedule"
     /\ trains # <<>>) =>
        /\ ret.exc = None
        /\ \A e \in 1..Len(ret.value.trains) :
               ret.value.trains[e].sections # <<>> =>
                   ret.value.trains[e].sections[1].start_time
                       >= TrainOf(ret.value.trains[e]).scheduled_departure

\* The lists that hold the trains of the caller's list in some order.
Orderings ==
    {[i \in 1..Len(trains) |-> trains[f[i]]] :
        f \in {g \in [1..Len(trains) -> 1..Len(trains)] :
                  \A a, b \in 1..Len(trains) : g[a] = g[b] => a = b}}

\* C29: SimpleTrainScheduler.optimize_schedule places the trains by
\* descending priority score, equal scores by earlier scheduled departure
\* and then by train id, so that it returns the same schedule for every
\* order in which the same trains are passed.
C29_ScheduleIndependentOfInputOrder ==
    (/\ call.op = "optimize_schedule"
     /\ call.scheduler = "SimpleTrainScheduler"
     /\ trains # <<>>) =>
        /\ ret.exc = None
        /\ \A ts \in Orderings : simple_optimize_schedule(sections, ts) = ret

(***************************************************************************)
(* FrameSpec                                                               *)
(***************************************************************************)
SchedulingOps ==
    {"optimize_schedule", "detect_conflicts", "resolve_conflicts",
     "update_schedule"}

\* C24: optimize_schedule, detect_conflicts, resolve_conflicts and
\* update_schedule leave the network as they found it: after the call every
\* section has the status, the occupying trains and the reservation holder
\* it had when the call began.
C24_SchedulingLeavesNetwork ==
    call.op \in SchedulingOps =>
        /\ DOMAIN sections = DOMAIN before
        /\ \A s \in DOMAIN sections :
               /\ sections[s].current_status = before[s].current_status
               /\ sections[s].occupying_trains = before[s].occupying_trains
               /\ sections[s].reserved_for = before[s].reserved_for

\* A scheduling call was made over two trains while SEC_003 was occupied.
C24_Witness ==
    /\ call.op \in SchedulingOps
    /\ Len(trains) = 2
    /\ before["SEC_003"].current_status = "occupied"
    /\ before["SEC_003"].occupying_trains # <<>>
    /\ sections = before

=============================================================================
